---- MODULE Spec2Model ----
(***************************************************************************)
(* Flood-dissemination event meshes of src/apps/main.cpp.                  *)
(*                                                                         *)
(* The file holds several programs, each with its own main.  This module   *)
(* models them, told apart by the variable `program`:                      *)
(*   "EventQueue"   (lines 17-194): class EventQueue, event_generator,     *)
(*                  generator_router, the event_processor threads, their   *)
(*                  detached resend threads and the shutdown of main;      *)
(*   "WorkerThread" (lines 217-443): class ThreadSafeQueue, g_shutdown,    *)
(*                  EventGenerator, WorkerThread::processEvents and its    *)
(*                  detached resend threads;                               *)
(*   "Worker"       (lines 543-673): class Worker with its incoming_events *)
(*                  queue, and main, which injects events and stops the    *)
(*                  workers;                                               *)
(*   "Appointments" (lines 675-1150): class AppointmentSystem called from  *)
(*                  several threads, as testConcurrency does.              *)
(* and class Table of src/tests/unittests.cpp (program "Table"), and the   *)
(* two book_appointment functions of src/unnamed/part_000 ("Booking").     *)
(*                                                                         *)
(* A step of the model is one access to shared memory: one atomic load or  *)
(* store, or one critical section of a queue mutex.  Code that touches     *)
(* only thread-local data is folded into the shared access before it.      *)
(***************************************************************************)
EXTENDS Integers, Sequences, FiniteSets, Bags, TLC

\* ------------------------------------------------------------------ bounds
\* Events a generator may produce.
MaxSeq == 1
\* event_processor threads of the mesh that is checked (main.cpp:140 starts 3).
num_threads == 2
\* WorkerThread objects of the mesh that is checked (main.cpp:218 builds 5).
NUM_WORKER_THREADS == 3
\* Threads that call dequeue on the queue under test.
NumClients == 2
\* enqueue calls made on the queue under test.
MaxEnq == 3
\* Events injected into the node channels from outside the mesh.
MaxInject == 3
\* Events a generator may produce where it runs with the reader of its queue only.
MaxGen == 2

\* Events main of the Worker program injects (main.cpp:656 injects 5).
NumInjected == 2
\* Rows a Table may hold.
MaxRows == 2
\* Decimal digits kept of a REAL value.
MaxFrac == 1
\* Elements of a vector<int> passed to findPairs or to
\* find_combinations_with_target_sum, and the largest element.
MaxLen == 3
MaxVal == 3

\* -------------------------------------------------------------- constants
NoThread == -1
\* num_threads of main of the Worker program.
worker_num_threads == 3

VARIABLES
    program,           \* which main of src/apps/main.cpp runs
    queues,            \* EventQueue objects: queue_, stop_requested_, mutex_, cv_
    stop_flag,         \* std::atomic<bool> stop_flag of main (EventQueue program)
    sequence_number,   \* std::atomic<uint64_t> sequence_number of main
    route_i,           \* generator_router: index of the next queue in its for loop
    event_queue,       \* the ThreadSafeQueue of main (WorkerThread program)
    g_shutdown,        \* std::atomic<bool> g_shutdown
    event_id_,         \* EventGenerator::event_id_
    pc,                \* position of every thread that dequeues
    event,             \* local variable `event` of every thread that dequeues
    gen_pc,            \* position of the generator thread
    main_pc,           \* position of main
    main_i,            \* main: index in its request_stop loop and its join loop
    received_events,   \* per node: the unordered_set received_events
    resend,            \* detached resend threads that have not finished
    received_log,      \* bag of "Thread n received event" lines: <<n, identity>>
    resend_log,        \* bag of forwarding rounds started: <<n, identity>>
    forward_log,       \* bag of enqueue calls of WorkerThread resend threads:
                       \* <<n, channel, identity>>
    injected,          \* events enqueued into node channels from outside so far
    inject_events,     \* the events that may be enqueued from outside
    enq_log,           \* events in the order a generator or a test enqueued them
    deq_log,           \* queue under test: events in the order dequeue removed them
    stop_woke,         \* queue under test: threads blocked when request_stop ran
    workers,           \* the workers vector of main (WorkerThread program)
    done,              \* Worker::done of every Worker
    appointments,      \* AppointmentSystem::appointments
    appointmentsMutex, \* AppointmentSystem::appointmentsMutex: the thread that holds it
    rows,              \* Table::rows
    call               \* the call in progress or last made: its arguments and its result

queueVars == <<queues, stop_flag, sequence_number, route_i>>
workerVars == <<event_queue, g_shutdown, event_id_>>
threadVars == <<pc, event>>
ctlVars == <<program, gen_pc, main_pc, main_i>>
nodeVars == <<received_events, resend, received_log, resend_log, forward_log>>
testVars == <<injected, inject_events, enq_log, deq_log, stop_woke>>
appVars == <<workers, done, appointments, appointmentsMutex, rows, call>>

vars == <<queueVars, workerVars, threadVars, ctlVars, nodeVars, testVars, appVars>>

\* ============================================================ EventQueue

\* struct Event (line 23) and the value-initialised Event of `return {}`.
Event(d, g, s) == [data |-> d, generator_id |-> g, sequence_number |-> s]
EmptyEvent == Event("", 0, 0)

\* A default-constructed EventQueue.
NewEventQueue == [queue_ |-> <<>>, stop_requested_ |-> FALSE, mutex_ |-> NoThread, cv_ |-> {}]

\* A notify_one that wakes no waiter.
notify_one_nobody(waiting) == {waiting}

\* condition_variable::notify_one: the possible sets of waiters left blocked.
notify_one(waiting) == IF waiting = {} THEN {{}} ELSE {waiting \ {t} : t \in waiting}

\* condition_variable::notify_all: no waiter is left blocked.
notify_all(waiting) == {}

\* EventQueue::enqueue without its cv_.notify_one().
EventQueue_enqueue_no_notify(q, e) == {[q EXCEPT !.queue_ = Append(@, e)]}

\* EventQueue::enqueue, one critical section: the possible resulting queues.
EventQueue_enqueue(q, e) ==
    {[q EXCEPT !.queue_ = Append(@, e), !.cv_ = w] : w \in notify_one(q.cv_)}

\* The wait predicate of EventQueue::dequeue.
EventQueue_pred(q) == q.queue_ # <<>> \/ q.stop_requested_

\* EventQueue::dequeue that tests stop_requested_ instead of queue_.empty().
EventQueue_result_stop_first(q) == IF q.stop_requested_ THEN EmptyEvent ELSE Head(q.queue_)

\* EventQueue::dequeue after the predicate held: the returned event.
EventQueue_result(q) == IF q.queue_ = <<>> THEN EmptyEvent ELSE Head(q.queue_)

\* EventQueue::dequeue without its queue_.pop().
EventQueue_pop_missing(q) == q

\* EventQueue::dequeue after the predicate held: the queue left behind.
EventQueue_pop(q) == IF q.queue_ = <<>> THEN q ELSE [q EXCEPT !.queue_ = Tail(@)]

\* EventQueue::request_stop with notify_one in place of notify_all.
request_stop_notify_one(q) ==
    [q EXCEPT !.stop_requested_ = TRUE,
              !.cv_ = IF @ = {} THEN {} ELSE @ \ {CHOOSE t \in @ : TRUE}]

\* EventQueue::request_stop: stop_requested_.store(true), then cv_.notify_all(),
\* neither under mutex_.  The two statements are one step: a step of another
\* thread between them leads to a state that is also reached with that step
\* taken before the store or after the notify_all.
request_stop(q) == [q EXCEPT !.stop_requested_ = TRUE, !.cv_ = notify_all(@)]

\* A thread t inside dequeue() is at
\*   "deq"        before std::unique_lock lock(mutex_)
\*   "pred_false" holding mutex_, the predicate was false, about to block
\*   "wait"       blocked in the wait (t is in the waiter set) or notified (it is not)
\* and leaves to "got" with the returned event.

\* EventQueue::dequeue: lock mutex_ (on entry, or again after a notification) and
\* evaluate the predicate; if it holds, finish dequeue in the same critical section.
DequeueEval(t, k) ==
    /\ \/ pc[t] = "deq"
       \/ pc[t] = "wait" /\ t \notin queues[k].cv_
    /\ queues[k].mutex_ = NoThread
    /\ IF EventQueue_pred(queues[k])
       THEN /\ event' = [event EXCEPT ![t] = EventQueue_result(queues[k])]
            /\ queues' = [queues EXCEPT ![k] = EventQueue_pop(@)]
            /\ pc' = [pc EXCEPT ![t] = "got"]
       ELSE /\ queues' = [queues EXCEPT ![k].mutex_ = t]
            /\ pc' = [pc EXCEPT ![t] = "pred_false"]
            /\ UNCHANGED event

\* EventQueue::dequeue: cv_.wait releases mutex_ and blocks, atomically.
DequeueBlock(t, k) ==
    /\ pc[t] = "pred_false"
    /\ queues[k].mutex_ = t
    /\ queues' = [queues EXCEPT ![k].mutex_ = NoThread, ![k].cv_ = @ \cup {t}]
    /\ pc' = [pc EXCEPT ![t] = "wait"]
    /\ UNCHANGED event

\* A spurious wake-up of a thread blocked in cv_.wait.
SpuriousWake(t, k) ==
    /\ pc[t] = "wait"
    /\ t \in queues[k].cv_
    /\ queues' = [queues EXCEPT ![k].cv_ = @ \ {t}]
    /\ UNCHANGED <<appVars, pc, event>>

\* ======================================================= ThreadSafeQueue

\* class Event of the WorkerThread program (line 260); data is kept as a tuple
\* of its text and the number printed into it.
WEvent(i, d) == [id |-> i, data |-> d]

\* Event(-1, "SHUTDOWN").
ShutdownEvent == WEvent(-1, <<"SHUTDOWN">>)

\* Event::operator==.
WEventEquals(a, b) == a.id = b.id /\ a.data = b.data

\* A default-constructed ThreadSafeQueue.
NewThreadSafeQueue == [queue_ |-> <<>>, mutex_ |-> NoThread, condition_ |-> {}]

\* ThreadSafeQueue::enqueue, one critical section: the possible resulting queues.
ThreadSafeQueue_enqueue(q, e) ==
    {[q EXCEPT !.queue_ = Append(@, e), !.condition_ = w] : w \in notify_one(q.condition_)}

\* The wait predicate of ThreadSafeQueue::dequeue.
ThreadSafeQueue_pred(q, shutdown) == q.queue_ # <<>> \/ shutdown

\* ThreadSafeQueue::dequeue after the predicate held: the returned event.
ThreadSafeQueue_result(q, shutdown) ==
    IF q.queue_ = <<>> /\ shutdown THEN ShutdownEvent ELSE Head(q.queue_)

\* ThreadSafeQueue::dequeue after the predicate held: the queue left behind.
ThreadSafeQueue_pop(q, shutdown) ==
    IF q.queue_ = <<>> /\ shutdown THEN q ELSE [q EXCEPT !.queue_ = Tail(@)]

\* ThreadSafeQueue::dequeue: lock mutex_ and evaluate the predicate; if it holds,
\* finish dequeue in the same critical section.
TSQDequeueEval(t) ==
    /\ \/ pc[t] = "deq"
       \/ pc[t] = "wait" /\ t \notin event_queue.condition_
    /\ event_queue.mutex_ = NoThread
    /\ IF ThreadSafeQueue_pred(event_queue, g_shutdown)
       THEN /\ event' = [event EXCEPT ![t] = ThreadSafeQueue_result(event_queue, g_shutdown)]
            /\ event_queue' = ThreadSafeQueue_pop(event_queue, g_shutdown)
            /\ pc' = [pc EXCEPT ![t] = "got"]
       ELSE /\ event_queue' = [event_queue EXCEPT !.mutex_ = t]
            /\ pc' = [pc EXCEPT ![t] = "pred_false"]
            /\ UNCHANGED event

\* ThreadSafeQueue::dequeue: condition_.wait releases mutex_ and blocks, atomically.
TSQDequeueBlock(t) ==
    /\ pc[t] = "pred_false"
    /\ event_queue.mutex_ = t
    /\ event_queue' = [event_queue EXCEPT !.mutex_ = NoThread, !.condition_ = @ \cup {t}]
    /\ pc' = [pc EXCEPT ![t] = "wait"]
    /\ UNCHANGED event

\* A spurious wake-up of a thread blocked in condition_.wait.
TSQSpuriousWake(t) ==
    /\ pc[t] = "wait"
    /\ t \in event_queue.condition_
    /\ event_queue' = [event_queue EXCEPT !.condition_ = @ \ {t}]
    /\ UNCHANGED <<appVars, pc, event>>

\* ===================================================== EventQueue program

\* Thread identities.  event_processor i (thread_id i) reads queues[i-1], named
\* queue i here; generator_router reads generator_queue, queue 0.
Router == 0
Procs == 1..num_threads
generator_queue == 0
Queues == {generator_queue} \cup Procs
Generator == num_threads + 1

\* queue_ptrs as copied into every event_processor: the node queues and then
\* generator_queue, which main pushes before it starts the processors.
queue_ptrs == [i \in 1..(num_threads + 1) |-> IF i <= num_threads THEN i ELSE generator_queue]

\* The threads vector of main, in join order: generator, processors, router.
threads == [i \in 1..(num_threads + 2) |->
              IF i = 1 THEN Generator ELSE IF i = num_threads + 2 THEN Router ELSE i - 1]

\* The queue a consumer thread dequeues from.
own_queue(t) == t

\* event_generator that numbers every event 0.
GeneratedEvent_seq_zero(g, s) == Event("Event from generator", g, 0)

\* event_generator: the event built from generator_id and sequence_number.
GeneratedEvent(g, s) == Event("Event from generator", g, s)

\* event_id of event_processor, (generator_id << 32) | sequence_number, as its
\* high and low 32-bit halves.  Sequence numbers of the model stay far below
\* 2^32, so the high half is generator_id and the low half is sequence_number.
event_id(e) == <<e.generator_id, e.sequence_number>>

\* A thread of the threads vector has returned from its function.
Terminated(t) == IF t = Generator THEN gen_pc = "stopped" ELSE pc[t] = "stopped"

\* The process ends when main returns; detached threads end with it.
ProcessAlive == main_pc # "done"

Log(bag, x) == bag (+) SetToBag({x})

\* The events a generator produces before its next sleep never ends: MaxSeq where
\* the whole mesh runs, MaxGen where one reader of the generator's queue runs.
GenLimit == IF Cardinality(DOMAIN pc) > 1 THEN MaxSeq ELSE MaxGen

\* while (!stop_flag.load()) of event_processor and of generator_router.
ConsumerLoop(t) ==
    /\ program = "EventQueue" /\ ProcessAlive
    /\ pc[t] = "loop"
    /\ pc' = [pc EXCEPT ![t] = IF stop_flag THEN "stopped" ELSE "deq"]
    /\ UNCHANGED <<appVars, queueVars, workerVars, event, ctlVars, nodeVars, testVars>>

\* queue.dequeue() of event_processor and of generator_router.
ConsumerDequeue(t) ==
    /\ program = "EventQueue" /\ ProcessAlive
    /\ \/ DequeueEval(t, own_queue(t))
       \/ DequeueBlock(t, own_queue(t))
    /\ UNCHANGED <<appVars, stop_flag, sequence_number, route_i, workerVars, ctlVars, nodeVars, testVars>>

ConsumerSpuriousWake(t) ==
    /\ program = "EventQueue" /\ ProcessAlive
    /\ SpuriousWake(t, own_queue(t))
    /\ UNCHANGED <<appVars, stop_flag, sequence_number, route_i, workerVars, ctlVars, nodeVars, testVars>>

\* is_duplicate that looks the id up in an empty set.
is_duplicate_never(received, id) == id \in {}

\* is_duplicate of event_processor.
is_duplicate(received, id) == id \in received

\* mark_received that keeps only the id it is given.
mark_received_last(received, id) == {id}

\* mark_received of event_processor.
mark_received(received, id) == received \cup {id}

\* Detached threads for every entry of other_queues, the own queue included.
resend_threads_all(p, e) ==
    {[from |-> p, to |-> queue_ptrs[i], event |-> e, stage |-> "sleep"] :
        i \in DOMAIN queue_ptrs}

\* The detached threads event_processor p starts for a new event: one for each
\* entry of other_queues that is not its own queue.
resend_threads(p, e) ==
    {[from |-> p, to |-> queue_ptrs[i], event |-> e, stage |-> "sleep"] :
        i \in {j \in DOMAIN queue_ptrs : queue_ptrs[j] # own_queue(p)}}

\* An event_processor that, for a new event, starts its forward threads and
\* then waits for them instead of going back to its loop.
ProcessorGot_waits(p) ==
    /\ program = "EventQueue" /\ ProcessAlive
    /\ p \in Procs
    /\ pc[p] = "got"
    /\ ~stop_flag /\ event[p].data # ""
    /\ ~is_duplicate(received_events[p], event_id(event[p]))
    /\ pc' = [pc EXCEPT ![p] = "join"]
    /\ received_log' = Log(received_log, <<p, event_id(event[p])>>)
    /\ received_events' =
          [received_events EXCEPT ![p] = mark_received(@, event_id(event[p]))]
    /\ resend' = resend \cup resend_threads(p, event[p])
    /\ resend_log' = Log(resend_log, <<p, event_id(event[p])>>)
    /\ event' = [event EXCEPT ![p] = EmptyEvent]
    /\ UNCHANGED <<appVars, queueVars, workerVars, ctlVars, forward_log, testVars>>

\* event_processor, from the return of dequeue to the end of the loop body.
ProcessorGot(p) ==
    /\ program = "EventQueue" /\ ProcessAlive
    /\ p \in Procs
    /\ pc[p] = "got"
    /\ IF stop_flag \/ event[p].data = ""
       THEN /\ pc' = [pc EXCEPT ![p] = "stopped"]
            /\ UNCHANGED <<appVars, received_events, resend, received_log, resend_log>>
       ELSE LET id == event_id(event[p]) IN
            /\ pc' = [pc EXCEPT ![p] = "loop"]
            /\ IF ~is_duplicate(received_events[p], id)
               THEN /\ received_log' = Log(received_log, <<p, id>>)
                    /\ received_events' =
                          [received_events EXCEPT ![p] = mark_received(@, id)]
                    /\ resend' = resend \cup resend_threads(p, event[p])
                    /\ resend_log' = Log(resend_log, <<p, id>>)
               ELSE UNCHANGED <<received_events, resend, received_log, resend_log>>
    /\ event' = [event EXCEPT ![p] = EmptyEvent]
    /\ UNCHANGED <<appVars, queueVars, workerVars, ctlVars, forward_log, testVars>>

\* Detached resend thread that enqueues without reading stop_flag.
ResendCheck_ignores_stop(r) ==
    /\ program = "EventQueue" /\ ProcessAlive
    /\ r \in resend
    /\ r.stage = "sleep"
    /\ resend' = (resend \ {r}) \cup {[r EXCEPT !.stage = "enqueue"]}
    /\ UNCHANGED <<appVars, queueVars, workerVars, threadVars, ctlVars, received_events,
                   received_log, resend_log, forward_log, testVars>>

\* Detached resend thread: after the sleep, if (!stop_flag.load()).
ResendCheck(r) ==
    /\ program = "EventQueue" /\ ProcessAlive
    /\ r \in resend
    /\ r.stage = "sleep"
    /\ resend' = IF stop_flag THEN resend \ {r}
                 ELSE (resend \ {r}) \cup {[r EXCEPT !.stage = "enqueue"]}
    /\ UNCHANGED <<appVars, queueVars, workerVars, threadVars, ctlVars, received_events,
                   received_log, resend_log, forward_log, testVars>>

\* Detached resend thread: other_queue->enqueue(event).
ResendEnqueue(r) ==
    /\ program = "EventQueue" /\ ProcessAlive
    /\ r \in resend
    /\ r.stage = "enqueue"
    /\ queues[r.to].mutex_ = NoThread
    /\ \E q \in EventQueue_enqueue(queues[r.to], r.event) :
          queues' = [queues EXCEPT ![r.to] = q]
    /\ resend' = resend \ {r}
    /\ UNCHANGED <<appVars, stop_flag, sequence_number, route_i, workerVars, threadVars, ctlVars,
                   received_events, received_log, resend_log, forward_log, testVars>>

\* generator_router, from the return of dequeue to the start of the for loop.
RouterGot ==
    /\ program = "EventQueue" /\ ProcessAlive
    /\ Router \in DOMAIN pc
    /\ pc[Router] = "got"
    /\ IF stop_flag \/ event[Router].data = ""
       THEN /\ pc' = [pc EXCEPT ![Router] = "stopped"]
            /\ event' = [event EXCEPT ![Router] = EmptyEvent]
            /\ UNCHANGED route_i
       ELSE pc' = [pc EXCEPT ![Router] = "route"] /\ route_i' = 1 /\ UNCHANGED event
    /\ UNCHANGED <<appVars, queues, stop_flag, sequence_number, workerVars, ctlVars,
                   nodeVars, testVars>>

\* generator_router: q.enqueue(event) for the next q of queues.
RouterEnqueue ==
    /\ program = "EventQueue" /\ ProcessAlive
    /\ Router \in DOMAIN pc
    /\ pc[Router] = "route"
    /\ queues[route_i].mutex_ = NoThread
    /\ \E q \in EventQueue_enqueue(queues[route_i], event[Router]) :
          queues' = [queues EXCEPT ![route_i] = q]
    /\ IF route_i = num_threads
       THEN pc' = [pc EXCEPT ![Router] = "loop"] /\ route_i' = 0
            /\ event' = [event EXCEPT ![Router] = EmptyEvent]
       ELSE route_i' = route_i + 1 /\ UNCHANGED <<pc, event>>
    /\ UNCHANGED <<appVars, stop_flag, sequence_number, workerVars, ctlVars, nodeVars, testVars>>

\* event_generator: while (!stop_flag.load()), then the sleep starts.
GeneratorLoop ==
    /\ program = "EventQueue" /\ ProcessAlive
    /\ gen_pc = "loop"
    /\ stop_flag \/ sequence_number < GenLimit
    /\ gen_pc' = IF stop_flag THEN "stopped" ELSE "sleep"
    /\ UNCHANGED <<appVars, queueVars, workerVars, threadVars, program, main_pc, main_i,
                   nodeVars, testVars>>

\* event_generator without the check of stop_flag after the sleep.
GeneratorWake_no_check ==
    /\ program = "EventQueue" /\ ProcessAlive
    /\ gen_pc = "sleep"
    /\ gen_pc' = "produce"
    /\ UNCHANGED <<appVars, queueVars, workerVars, threadVars, program, main_pc, main_i,
                   nodeVars, testVars>>

\* event_generator: the sleep ends, if (stop_flag.load()) break.
GeneratorWake ==
    /\ program = "EventQueue" /\ ProcessAlive
    /\ gen_pc = "sleep"
    /\ gen_pc' = IF stop_flag THEN "stopped" ELSE "produce"
    /\ UNCHANGED <<appVars, queueVars, workerVars, threadVars, program, main_pc, main_i,
                   nodeVars, testVars>>

\* event_generator: build the event, fetch_add the sequence number, enqueue.
GeneratorProduce ==
    /\ program = "EventQueue" /\ ProcessAlive
    /\ gen_pc = "produce"
    /\ queues[generator_queue].mutex_ = NoThread
    /\ \E q \in EventQueue_enqueue(queues[generator_queue], GeneratedEvent(0, sequence_number)) :
          queues' = [queues EXCEPT ![generator_queue] = q]
    /\ enq_log' = Append(enq_log, GeneratedEvent(0, sequence_number))
    /\ sequence_number' = sequence_number + 1
    /\ gen_pc' = "loop"
    /\ UNCHANGED <<appVars, stop_flag, route_i, workerVars, threadVars, program, main_pc, main_i,
                   nodeVars, injected, inject_events, deq_log, stop_woke>>

\* main: std::cin.get() returns, stop_flag.store(true).
MainStopFlag ==
    /\ program = "EventQueue"
    /\ main_pc = "input"
    /\ stop_flag' = TRUE
    /\ main_pc' = "request_stop"
    /\ main_i' = generator_queue
    /\ UNCHANGED <<appVars, queues, sequence_number, route_i, workerVars, threadVars, program,
                   gen_pc, nodeVars, testVars>>

\* main: request_stop on generator_queue and then on every queue of queues,
\* one call for each step; after the last call the join loop starts.
MainRequestStop ==
    /\ program = "EventQueue"
    /\ main_pc = "request_stop"
    /\ queues' = [queues EXCEPT ![main_i] = request_stop(@)]
    /\ IF main_i = num_threads
       THEN main_pc' = "join" /\ main_i' = 1
       ELSE main_i' = main_i + 1 /\ UNCHANGED main_pc
    /\ UNCHANGED <<appVars, stop_flag, sequence_number, route_i, workerVars, threadVars, program,
                   gen_pc, nodeVars, testVars>>

\* main: thread.join() for the next thread of threads, then return.
MainJoin ==
    /\ program = "EventQueue"
    /\ main_pc = "join"
    /\ Terminated(threads[main_i])
    /\ IF main_i = Len(threads)
       THEN main_pc' = "done" /\ main_i' = 0
       ELSE main_i' = main_i + 1 /\ UNCHANGED main_pc
    /\ UNCHANGED <<appVars, queueVars, workerVars, threadVars, program, gen_pc, nodeVars, testVars>>

\* No queue is under test and nothing is injected from outside.
NoTest ==
    /\ injected = 0
    /\ inject_events = {}
    /\ enq_log = <<>>
    /\ deq_log = <<>>
    /\ stop_woke = {}

\* The WorkerThread program does not run.
NoWorkerProgram ==
    /\ event_queue = NewThreadSafeQueue
    /\ g_shutdown = FALSE
    /\ event_id_ = 0

\* The EventQueue program does not run.
NoQueueProgram ==
    /\ queues = <<>>
    /\ stop_flag = FALSE
    /\ sequence_number = 0
    /\ route_i = 0

\* No Worker, AppointmentSystem or Table object exists.
NoObjects ==
    /\ done = <<>>
    /\ appointments = <<>>
    /\ appointmentsMutex = NoThread
    /\ rows = <<>>
    /\ call = <<>>

NoLogs ==
    /\ resend = {}
    /\ received_log = EmptyBag
    /\ resend_log = EmptyBag
    /\ forward_log = EmptyBag

\* main of the EventQueue program, once it has started every thread.
MeshInit ==
    /\ program = "EventQueue"
    /\ workers = <<>>
    /\ queues = [k \in Queues |-> NewEventQueue]
    /\ stop_flag = FALSE
    /\ sequence_number = 0
    /\ route_i = 0
    /\ pc = [t \in {Router} \cup Procs |-> "loop"]
    /\ event = [t \in {Router} \cup Procs |-> EmptyEvent]
    /\ gen_pc = "loop"
    /\ main_pc = "input"
    /\ main_i = 0
    /\ received_events = [p \in Procs |-> {}]
    /\ NoLogs
    /\ NoObjects
    /\ NoWorkerProgram
    /\ NoTest

\* The threads of the mesh while main waits in std::cin.get().
MeshRun ==
    \/ \E t \in DOMAIN pc : ConsumerLoop(t)
    \/ \E t \in DOMAIN pc : ConsumerDequeue(t)
    \/ \E t \in DOMAIN pc : ConsumerSpuriousWake(t)
    \/ \E p \in DOMAIN pc : ProcessorGot(p)
    \/ \E r \in resend : ResendCheck(r)
    \/ \E r \in resend : ResendEnqueue(r)
    \/ RouterGot
    \/ RouterEnqueue
    \/ GeneratorLoop
    \/ GeneratorWake
    \/ GeneratorProduce

\* The shutdown sequence of main.
MeshShutdown ==
    \/ MainStopFlag
    \/ MainRequestStop
    \/ MainJoin

MeshNext == MeshRun \/ MeshShutdown

\* The EventQueue program.
MeshSpec == MeshInit /\ [][MeshNext]_vars

\* Fair scheduling: a thread that can take a step takes one, and a thread that
\* waits for a mutex that is free again and again gets it.
MeshFairness ==
    /\ \A t \in {Router} \cup Procs :
          /\ WF_vars(ConsumerLoop(t) \/ ProcessorGot(t))
          /\ SF_vars(ConsumerDequeue(t))
    /\ WF_vars(RouterGot)
    /\ SF_vars(RouterEnqueue)
    /\ WF_vars(GeneratorLoop \/ GeneratorWake)
    /\ SF_vars(GeneratorProduce)
    /\ WF_vars(\E r \in resend : ResendCheck(r))
    /\ SF_vars(\E r \in resend : ResendEnqueue(r))

\* The EventQueue program while main waits for input, under fair scheduling.
MeshLiveSpec == MeshInit /\ [][MeshRun]_vars /\ MeshFairness

\* =================================================== WorkerThread program

\* WorkerThread ids (id_ of worker i is i) and the workers vector of main, which
\* every worker's others_ refers to.
Workers == 0..(NUM_WORKER_THREADS - 1)
others_ == workers

\* The workers vector after main has constructed n WorkerThread objects.
NewWorkers(n) == [i \in 1..n |-> i - 1]

\* WorkerThread::queue_ of worker w: main passes the one event_queue to every
\* WorkerThread it constructs.
worker_queue(w) == "event_queue"

\* The local `event` of processEvents outside its scope.
NoWEvent == WEvent(0, <<>>)

\* EventGenerator::generateEvents: Event(event_id_++, "Event data " +
\* std::to_string(event_id_)).  The two arguments are evaluated in either order,
\* so the number in the text is the id or the id plus one.
GeneratedWEvents(i) == {WEvent(i, <<"Event data ", n>>) : n \in {i, i + 1}}

\* while (!g_shutdown) of WorkerThread::processEvents.
WorkerLoop(w) ==
    /\ program = "WorkerThread"
    /\ pc[w] = "loop"
    /\ pc' = [pc EXCEPT ![w] = IF g_shutdown THEN "stopped" ELSE "deq"]
    /\ UNCHANGED <<appVars, queueVars, workerVars, event, ctlVars, nodeVars, testVars>>

\* queue_.dequeue() of WorkerThread::processEvents.
WorkerDequeue(w) ==
    /\ program = "WorkerThread"
    /\ \/ TSQDequeueEval(w)
       \/ TSQDequeueBlock(w)
    /\ UNCHANGED <<appVars, queueVars, g_shutdown, event_id_, ctlVars, nodeVars, testVars>>

WorkerSpuriousWake(w) ==
    /\ program = "WorkerThread"
    /\ TSQSpuriousWake(w)
    /\ UNCHANGED <<appVars, queueVars, g_shutdown, event_id_, ctlVars, nodeVars, testVars>>

\* received_events.find(event) == received_events.end(), with Event::operator==.
not_received(received, e) == \A r \in received : ~WEventEquals(r, e)

\* WorkerThread::processEvents, from the return of dequeue to the end of the
\* loop body; a new event starts one detached resend thread.
WorkerGot(w) ==
    /\ program = "WorkerThread"
    /\ pc[w] = "got"
    /\ IF event[w].id = -1 /\ event[w].data = <<"SHUTDOWN">>
       THEN /\ pc' = [pc EXCEPT ![w] = "stopped"]
            /\ UNCHANGED <<appVars, received_events, resend, received_log, resend_log>>
       ELSE /\ pc' = [pc EXCEPT ![w] = "loop"]
            /\ IF not_received(received_events[w], event[w])
               THEN /\ received_events' = [received_events EXCEPT ![w] = @ \cup {event[w]}]
                    /\ received_log' = Log(received_log, <<w, event[w].id>>)
                    /\ resend' = resend \cup
                          {[from |-> w, event |-> event[w], stage |-> "sleep", i |-> 1]}
                    /\ resend_log' = Log(resend_log, <<w, event[w].id>>)
               ELSE UNCHANGED <<received_events, resend, received_log, resend_log>>
    /\ event' = [event EXCEPT ![w] = NoWEvent]
    /\ UNCHANGED <<appVars, queueVars, workerVars, ctlVars, forward_log, testVars>>

\* Detached resend thread of a worker: after the sleep, if (!g_shutdown).
WorkerResendCheck(r) ==
    /\ program = "WorkerThread" /\ ProcessAlive
    /\ r \in resend
    /\ r.stage = "sleep"
    /\ resend' = IF g_shutdown THEN resend \ {r}
                 ELSE (resend \ {r}) \cup {[r EXCEPT !.stage = "enqueue"]}
    /\ UNCHANGED <<appVars, queueVars, workerVars, threadVars, ctlVars, received_events,
                   received_log, resend_log, forward_log, testVars>>

\* The indexes of others_, from index i on, whose worker is not worker w.
other_indexes(w, i) == {j \in i..Len(others_) : others_[j] # w}

\* Detached resend thread of a worker: the next other->queue_.enqueue(event) of
\* its for loop over others_; the thread ends after the last one.
WorkerResendEnqueue(r) ==
    /\ program = "WorkerThread" /\ ProcessAlive
    /\ r \in resend
    /\ r.stage = "enqueue"
    /\ other_indexes(r.from, r.i) # {}
    /\ event_queue.mutex_ = NoThread
    /\ LET j == CHOOSE x \in other_indexes(r.from, r.i) :
                    \A y \in other_indexes(r.from, r.i) : x <= y
       IN /\ \E q \in ThreadSafeQueue_enqueue(event_queue, r.event) : event_queue' = q
          /\ forward_log' =
                Log(forward_log, <<r.from, worker_queue(others_[j]), r.event.id>>)
          /\ resend' = IF other_indexes(r.from, j + 1) = {} THEN resend \ {r}
                       ELSE (resend \ {r}) \cup {[r EXCEPT !.i = j + 1]}
    /\ UNCHANGED <<appVars, queueVars, g_shutdown, event_id_, threadVars, ctlVars, received_events,
                   received_log, resend_log, testVars>>

\* EventGenerator::generateEvents: while (!g_shutdown), then the sleep starts.
EventGeneratorLoop ==
    /\ program = "WorkerThread"
    /\ gen_pc = "loop"
    /\ g_shutdown \/ event_id_ < GenLimit
    /\ gen_pc' = IF g_shutdown THEN "stopped" ELSE "sleep"
    /\ UNCHANGED <<appVars, queueVars, workerVars, threadVars, program, main_pc, main_i,
                   nodeVars, testVars>>

\* EventGenerator::generateEvents: the sleep ends, if (g_shutdown) break.
EventGeneratorWake ==
    /\ program = "WorkerThread"
    /\ gen_pc = "sleep"
    /\ gen_pc' = IF g_shutdown THEN "stopped" ELSE "produce"
    /\ UNCHANGED <<appVars, queueVars, workerVars, threadVars, program, main_pc, main_i,
                   nodeVars, testVars>>

\* EventGenerator::generateEvents: construct the event and enqueue it.
EventGeneratorProduce ==
    /\ program = "WorkerThread"
    /\ gen_pc = "produce"
    /\ event_queue.mutex_ = NoThread
    /\ \E e \in GeneratedWEvents(event_id_) :
          /\ \E q \in ThreadSafeQueue_enqueue(event_queue, e) : event_queue' = q
          /\ enq_log' = Append(enq_log, e)
    /\ event_id_' = event_id_ + 1
    /\ gen_pc' = "loop"
    /\ UNCHANGED <<appVars, queueVars, g_shutdown, threadVars, program, main_pc, main_i,
                   nodeVars, injected, inject_events, deq_log, stop_woke>>

\* main of the WorkerThread program with n workers, once it has started every
\* thread.
WorkerInitOf(n) ==
    /\ program = "WorkerThread"
    /\ workers = NewWorkers(n)
    /\ event_queue = NewThreadSafeQueue
    /\ g_shutdown = FALSE
    /\ event_id_ = 0
    /\ pc = [w \in 0..(n - 1) |-> "loop"]
    /\ event = [w \in 0..(n - 1) |-> NoWEvent]
    /\ gen_pc = "loop"
    /\ main_pc = "input"
    /\ main_i = 0
    /\ received_events = [w \in 0..(n - 1) |-> {}]
    /\ NoLogs
    /\ NoObjects
    /\ NoQueueProgram
    /\ NoTest

\* main of the WorkerThread program.
WorkerInit == WorkerInitOf(NUM_WORKER_THREADS)

\* The worker threads and their resend threads.
WorkerNodes ==
    \/ \E w \in DOMAIN pc : WorkerLoop(w)
    \/ \E w \in DOMAIN pc : WorkerDequeue(w)
    \/ \E w \in DOMAIN pc : WorkerSpuriousWake(w)
    \/ \E w \in DOMAIN pc : WorkerGot(w)
    \/ \E r \in resend : WorkerResendCheck(r)
    \/ \E r \in resend : WorkerResendEnqueue(r)

\* The threads of the WorkerThread program while main waits in std::cin.get().
WorkerRun ==
    \/ WorkerNodes
    \/ EventGeneratorLoop
    \/ EventGeneratorWake
    \/ EventGeneratorProduce

\* The WorkerThread program while main waits for input.
WorkerSpec == WorkerInit /\ [][WorkerRun]_vars

\* main: std::cin.get() returns, g_shutdown = true.
MainShutdown ==
    /\ program = "WorkerThread"
    /\ main_pc = "input"
    /\ g_shutdown' = TRUE
    /\ main_pc' = "enqueue"
    /\ main_i' = 0
    /\ UNCHANGED <<appVars, queueVars, event_queue, event_id_, threadVars, program, gen_pc,
                   nodeVars, testVars>>

\* main that goes on to the joins without enqueueing a SHUTDOWN event.
MainEnqueueShutdown_skipped ==
    /\ program = "WorkerThread"
    /\ main_pc = "enqueue"
    /\ main_pc' = "join" /\ main_i' = -1
    /\ UNCHANGED <<appVars, queueVars, workerVars, threadVars, program, gen_pc,
                   nodeVars, testVars>>

\* main: the next event_queue.enqueue(Event(-1, "SHUTDOWN")) of its for loop;
\* after the last one the joins start, generator_thread first.
MainEnqueueShutdown ==
    /\ program = "WorkerThread"
    /\ main_pc = "enqueue"
    /\ event_queue.mutex_ = NoThread
    /\ \E q \in ThreadSafeQueue_enqueue(event_queue, ShutdownEvent) : event_queue' = q
    /\ IF main_i + 1 = Len(workers)
       THEN main_pc' = "join" /\ main_i' = -1
       ELSE main_i' = main_i + 1 /\ UNCHANGED main_pc
    /\ UNCHANGED <<appVars, queueVars, g_shutdown, event_id_, threadVars, program, gen_pc,
                   nodeVars, testVars>>

\* main: generator_thread.join(), then thread.join() for the next worker thread;
\* after the last join main deletes the workers and returns.
MainJoinWorkers ==
    /\ program = "WorkerThread"
    /\ main_pc = "join"
    /\ IF main_i = -1 THEN gen_pc = "stopped" ELSE pc[main_i] = "stopped"
    /\ IF main_i = Len(workers) - 1
       THEN main_pc' = "done" /\ main_i' = 0
       ELSE main_i' = main_i + 1 /\ UNCHANGED main_pc
    /\ UNCHANGED <<appVars, queueVars, workerVars, threadVars, program, gen_pc, nodeVars, testVars>>

\* The shutdown sequence of main of the WorkerThread program.
WorkerShutdown ==
    \/ MainShutdown
    \/ MainEnqueueShutdown
    \/ MainJoinWorkers

WorkerNext == WorkerRun \/ WorkerShutdown

\* Every thread that can take a step is scheduled.
WorkerFairness ==
    /\ \A w \in Workers :
          WF_vars(w \in DOMAIN pc /\ (WorkerLoop(w) \/ WorkerDequeue(w) \/ WorkerGot(w)))
    /\ WF_vars(\E r \in resend : WorkerResendCheck(r) \/ WorkerResendEnqueue(r))
    /\ WF_vars(EventGeneratorLoop \/ EventGeneratorWake \/ EventGeneratorProduce)
    /\ WF_vars(MainEnqueueShutdown \/ MainJoinWorkers)

\* The WorkerThread program with its shutdown, fairly scheduled, in a mesh of one
\* worker fewer than WorkerSpec has.
WorkerShutdownSpec ==
    WorkerInitOf(NUM_WORKER_THREADS - 1) /\ [][WorkerNext]_vars /\ WorkerFairness

\* ============================== a generator and the reader of its queue
\* The generator of either program, the thread that dequeues what it enqueues
\* (generator_router, or WorkerThread 0 with its resend threads), and the part of
\* main that signals the stop.

GenInit ==
    /\ program \in {"EventQueue", "WorkerThread"}
    /\ workers = IF program = "WorkerThread" THEN NewWorkers(NUM_WORKER_THREADS) ELSE <<>>
    /\ queues = IF program = "EventQueue" THEN [k \in Queues |-> NewEventQueue] ELSE <<>>
    /\ stop_flag = FALSE
    /\ sequence_number = 0
    /\ route_i = 0
    /\ NoWorkerProgram
    /\ pc = [t \in {0} |-> "loop"]
    /\ event = [t \in {0} |-> IF program = "EventQueue" THEN EmptyEvent ELSE NoWEvent]
    /\ gen_pc = "loop"
    /\ main_pc = "input"
    /\ main_i = 0
    /\ received_events = [t \in {0} |-> {}]
    /\ NoLogs
    /\ NoObjects
    /\ NoTest

GenNext ==
    \/ GeneratorLoop
    \/ GeneratorWake
    \/ GeneratorProduce
    \/ ConsumerLoop(Router)
    \/ ConsumerDequeue(Router)
    \/ ConsumerSpuriousWake(Router)
    \/ RouterGot
    \/ RouterEnqueue
    \/ MainStopFlag
    \/ MainRequestStop
    \/ EventGeneratorLoop
    \/ EventGeneratorWake
    \/ EventGeneratorProduce
    \/ WorkerNodes
    \/ MainShutdown
    \/ MainEnqueueShutdown

\* The generator is scheduled when it can take a step, gets the queue mutex when
\* it is free again and again, and the reader does not hold the mutex forever.
GenFairness ==
    /\ WF_vars(GeneratorLoop \/ GeneratorWake \/ EventGeneratorLoop \/ EventGeneratorWake)
    /\ SF_vars(GeneratorProduce \/ EventGeneratorProduce)
    /\ WF_vars(ConsumerDequeue(Router) \/ WorkerDequeue(0))

\* A generator of either program with the reader of its queue, fairly scheduled.
GenSpec == GenInit /\ [][GenNext]_vars /\ GenFairness

\* ================================================ one queue, many callers
\* A queue of either class with NumClients threads that call dequeue again and
\* again, enqueue calls from any thread, and one stop.

Clients == 1..NumClients
test_queue == generator_queue

\* The events enqueued into the queue under test: two distinct events, and for
\* ThreadSafeQueue also the Event(-1, "SHUTDOWN") that main enqueues.
TestEvents ==
    IF program = "EventQueue"
    THEN {Event("Test event", 0, 1), Event("Test event", 0, 2)}
    ELSE {WEvent(1, <<"Test event ", 1>>), WEvent(2, <<"Test event ", 2>>), ShutdownEvent}

\* A thread calls dequeue().
TestCall(t) ==
    /\ pc[t] = "idle"
    /\ pc' = [pc EXCEPT ![t] = "deq"]
    /\ UNCHANGED <<appVars, queueVars, workerVars, event, ctlVars, nodeVars, testVars>>

\* dequeue() has returned to its caller, which drops the event.
TestReturn(t) ==
    /\ pc[t] = "got"
    /\ pc' = [pc EXCEPT ![t] = "idle"]
    /\ event' = [event EXCEPT ![t] = IF program = "EventQueue" THEN EmptyEvent ELSE NoWEvent]
    /\ UNCHANGED <<appVars, queueVars, workerVars, ctlVars, nodeVars, testVars>>

\* EventQueue::enqueue called on the queue under test.
TestEnqueue(e) ==
    /\ program = "EventQueue"
    /\ Len(enq_log) < MaxEnq
    /\ queues[test_queue].mutex_ = NoThread
    /\ \E q \in EventQueue_enqueue(queues[test_queue], e) :
          queues' = [queues EXCEPT ![test_queue] = q]
    /\ enq_log' = Append(enq_log, e)
    /\ UNCHANGED <<appVars, stop_flag, sequence_number, route_i, workerVars, threadVars, ctlVars,
                   nodeVars, injected, inject_events, deq_log, stop_woke>>

\* EventQueue::dequeue on the queue under test, one step of it.
TestDequeue(t) ==
    /\ program = "EventQueue"
    /\ \/ /\ DequeueEval(t, test_queue)
          /\ deq_log' = IF pc'[t] = "got" /\ queues[test_queue].queue_ # <<>>
                        THEN Append(deq_log, event'[t]) ELSE deq_log
       \/ /\ DequeueBlock(t, test_queue)
          /\ UNCHANGED deq_log
    /\ UNCHANGED <<appVars, stop_flag, sequence_number, route_i, workerVars, ctlVars, nodeVars,
                   injected, inject_events, enq_log, stop_woke>>

TestSpuriousWake(t) ==
    /\ program = "EventQueue"
    /\ SpuriousWake(t, test_queue)
    /\ UNCHANGED <<appVars, stop_flag, sequence_number, route_i, workerVars, ctlVars, nodeVars, testVars>>

\* EventQueue::request_stop called on the queue under test.
TestRequestStop ==
    /\ program = "EventQueue"
    /\ ~queues[test_queue].stop_requested_
    /\ queues' = [queues EXCEPT ![test_queue] = request_stop(@)]
    /\ stop_woke' = queues[test_queue].cv_
    /\ UNCHANGED <<appVars, stop_flag, sequence_number, route_i, workerVars, threadVars, ctlVars,
                   nodeVars, injected, inject_events, enq_log, deq_log>>

\* ThreadSafeQueue::enqueue called on the queue under test.
TestEnqueueTSQ(e) ==
    /\ program = "WorkerThread"
    /\ Len(enq_log) < MaxEnq
    /\ event_queue.mutex_ = NoThread
    /\ \E q \in ThreadSafeQueue_enqueue(event_queue, e) : event_queue' = q
    /\ enq_log' = Append(enq_log, e)
    /\ UNCHANGED <<appVars, queueVars, g_shutdown, event_id_, threadVars, ctlVars, nodeVars,
                   injected, inject_events, deq_log, stop_woke>>

\* ThreadSafeQueue::dequeue on the queue under test, one step of it.
TestDequeueTSQ(t) ==
    /\ program = "WorkerThread"
    /\ \/ /\ TSQDequeueEval(t)
          /\ deq_log' = IF pc'[t] = "got" /\ event_queue.queue_ # <<>>
                        THEN Append(deq_log, event'[t]) ELSE deq_log
       \/ /\ TSQDequeueBlock(t)
          /\ UNCHANGED deq_log
    /\ UNCHANGED <<appVars, queueVars, g_shutdown, event_id_, ctlVars, nodeVars,
                   injected, inject_events, enq_log, stop_woke>>

TestSpuriousWakeTSQ(t) ==
    /\ program = "WorkerThread"
    /\ TSQSpuriousWake(t)
    /\ UNCHANGED <<appVars, queueVars, g_shutdown, event_id_, ctlVars, nodeVars, testVars>>

\* g_shutdown = true, as main of the WorkerThread program stores it.
TestShutdown ==
    /\ program = "WorkerThread"
    /\ ~g_shutdown
    /\ g_shutdown' = TRUE
    /\ UNCHANGED <<appVars, queueVars, event_queue, event_id_, threadVars, ctlVars, nodeVars, testVars>>

\* One queue of either class and its callers, no call made yet.
QueueInit ==
    /\ program \in {"EventQueue", "WorkerThread"}
    /\ workers = <<>>
    /\ queues = IF program = "EventQueue" THEN [k \in {test_queue} |-> NewEventQueue] ELSE <<>>
    /\ stop_flag = FALSE
    /\ sequence_number = 0
    /\ route_i = 0
    /\ NoWorkerProgram
    /\ pc = [t \in Clients |-> "idle"]
    /\ event = [t \in Clients |-> IF program = "EventQueue" THEN EmptyEvent ELSE NoWEvent]
    /\ gen_pc = "stopped"
    /\ main_pc = "input"
    /\ main_i = 0
    /\ received_events = <<>>
    /\ NoLogs
    /\ NoObjects
    /\ NoTest

QueueNext ==
    \/ \E t \in Clients : TestCall(t)
    \/ \E t \in Clients : TestReturn(t)
    \/ \E e \in TestEvents : TestEnqueue(e)
    \/ \E t \in Clients : TestDequeue(t)
    \/ \E t \in Clients : TestSpuriousWake(t)
    \/ TestRequestStop
    \/ \E e \in TestEvents : TestEnqueueTSQ(e)
    \/ \E t \in Clients : TestDequeueTSQ(t)
    \/ \E t \in Clients : TestSpuriousWakeTSQ(t)
    \/ TestShutdown

\* A thread inside dequeue is scheduled again when it can take a step.
QueueFairness == \A t \in Clients : WF_vars(TestDequeue(t)) /\ WF_vars(TestDequeueTSQ(t))

\* EventQueue and ThreadSafeQueue under any callers.
QueueSpec == QueueInit /\ [][QueueNext]_vars /\ QueueFairness

\* ============================================== one node fed from outside
\* The processing loop of one node of either program, event_processor 1 or
\* WorkerThread 0, wired as main wires it.  Events are enqueued into its channel
\* from outside, each one any number of times; its resend threads run.

\* The node whose loop runs.
TestNode(prog) == IF prog = "EventQueue" THEN {1} ELSE {0}

\* Two events with one id and different data.
PayloadEvents == {WEvent(0, <<"a">>), WEvent(0, <<"b">>)}

\* An event is enqueued into the queue of event_processor k.
NodeInject(k, e) ==
    /\ program = "EventQueue"
    /\ k \in DOMAIN pc
    /\ injected < MaxInject
    /\ queues[k].mutex_ = NoThread
    /\ \E q \in EventQueue_enqueue(queues[k], e) : queues' = [queues EXCEPT ![k] = q]
    /\ injected' = injected + 1
    /\ UNCHANGED <<appVars, stop_flag, sequence_number, route_i, workerVars, threadVars, ctlVars,
                   nodeVars, inject_events, enq_log, deq_log, stop_woke>>

\* An event is enqueued into event_queue.
WorkerInject(e) ==
    /\ program = "WorkerThread"
    /\ injected < MaxInject
    /\ event_queue.mutex_ = NoThread
    /\ \E q \in ThreadSafeQueue_enqueue(event_queue, e) : event_queue' = q
    /\ injected' = injected + 1
    /\ UNCHANGED <<appVars, queueVars, g_shutdown, event_id_, threadVars, ctlVars,
                   nodeVars, inject_events, enq_log, deq_log, stop_woke>>

NodeInitFor(prog, events) ==
    /\ program = prog
    /\ workers = IF prog = "WorkerThread" THEN NewWorkers(NUM_WORKER_THREADS) ELSE <<>>
    /\ queues = IF prog = "EventQueue" THEN [k \in Queues |-> NewEventQueue] ELSE <<>>
    /\ stop_flag = FALSE
    /\ sequence_number = 0
    /\ route_i = 0
    /\ NoWorkerProgram
    /\ pc = [t \in TestNode(prog) |-> "loop"]
    /\ event = [t \in TestNode(prog) |-> IF prog = "EventQueue" THEN EmptyEvent ELSE NoWEvent]
    /\ gen_pc = "stopped"
    /\ main_pc = "input"
    /\ main_i = 0
    /\ received_events = [t \in TestNode(prog) |-> {}]
    /\ NoLogs
    /\ NoObjects
    /\ injected = 0
    /\ inject_events = events
    /\ enq_log = <<>>
    /\ deq_log = <<>>
    /\ stop_woke = {}

NodeInit ==
    \/ NodeInitFor("EventQueue", {GeneratedEvent(0, 0), GeneratedEvent(0, 1)})
    \/ NodeInitFor("WorkerThread", {WEvent(0, <<"Event data ", 1>>), WEvent(1, <<"Event data ", 2>>)})

NodeNext ==
    \/ \E k \in Procs : \E e \in inject_events : NodeInject(k, e)
    \/ \E t \in DOMAIN pc : ConsumerLoop(t)
    \/ \E t \in DOMAIN pc : ConsumerDequeue(t)
    \/ \E t \in DOMAIN pc : ConsumerSpuriousWake(t)
    \/ \E p \in DOMAIN pc : ProcessorGot(p)
    \/ \E r \in resend : ResendCheck(r)
    \/ \E r \in resend : ResendEnqueue(r)
    \/ \E e \in inject_events : WorkerInject(e)
    \/ WorkerNodes

\* A node of either program, fed copies of the events its generator builds.
NodeSpec == NodeInit /\ [][NodeNext]_vars

\* The node while main signals the stop: stop_flag and the request_stop calls,
\* or g_shutdown and the SHUTDOWN events.
NodeStopNext ==
    \/ NodeNext
    \/ MainStopFlag
    \/ MainRequestStop
    \/ MainShutdown
    \/ MainEnqueueShutdown

\* A node of either program, fed from outside, and the stop signalled by main.
NodeStopSpec == NodeInit /\ [][NodeStopNext]_vars

PayloadInit == NodeInitFor("WorkerThread", PayloadEvents)

PayloadNext ==
    \/ \E e \in inject_events : WorkerInject(e)
    \/ WorkerNodes

\* A worker fed events that share an id and differ in data.
PayloadSpec == PayloadInit /\ [][PayloadNext]_vars

\* An event with an empty data payload and an event of the generator.
EmptyDataEvents == {Event("", 1, 1), GeneratedEvent(0, 0)}

EmptyDataInit == NodeInitFor("EventQueue", EmptyDataEvents)

EmptyDataNext ==
    \/ \E k \in Procs : \E e \in inject_events : NodeInject(k, e)
    \/ \E t \in DOMAIN pc : ConsumerLoop(t)
    \/ \E t \in DOMAIN pc : ConsumerDequeue(t)
    \/ \E t \in DOMAIN pc : ConsumerSpuriousWake(t)
    \/ \E p \in DOMAIN pc : ProcessorGot(p)
    \/ \E r \in resend : ResendCheck(r)
    \/ \E r \in resend : ResendEnqueue(r)

\* An event_processor fed events among which one has no data; no stop.
EmptyDataSpec == EmptyDataInit /\ [][EmptyDataNext]_vars

\* ========================================================= Worker program

\* What the Worker program leaves alone.
notWorker ==
    <<stop_flag, sequence_number, route_i, workerVars, gen_pc, received_events, resend,
      resend_log, forward_log, testVars, workers, appointments, appointmentsMutex, rows>>

\* class Event of the Worker program (line 554), and the local `event` of
\* process_events before dequeue has returned.
OEvent(d, o) == [data |-> d, origin_thread_id |-> o]
NoOEvent == OEvent(<<>>, -1)

\* Worker::others of worker w as main sets it: the other workers, by id.
others(w) ==
    LET ids == {x \in 0..(worker_num_threads - 1) : x # w}
        less(x) == Cardinality({y \in ids : y < x})
    IN [i \in 1..Cardinality(ids) |-> CHOOSE x \in ids : less(x) = i - 1]

\* The log keeps at most two copies of a line.
LogTwice(bag, x) == IF CopiesIn(x, bag) >= 2 THEN bag ELSE Log(bag, x)

\* Worker::process_events: while (!done).  done is a plain bool that main writes
\* under Worker::mtx and this loop reads without it, so the read may also miss
\* the write.
ProcessLoop(w) ==
    /\ program = "Worker"
    /\ pc[w] = "loop"
    /\ \E d \in {done[w], FALSE} : pc' = [pc EXCEPT ![w] = IF d THEN "stopped" ELSE "deq"]
    /\ UNCHANGED <<notWorker, queues, done, event, call, program, main_pc, main_i, received_log>>

\* ThreadSafeQueue::dequeue of incoming_events (line 574), one step of it: lock
\* mtx and evaluate !q.empty(), taking the front event if it holds; or release
\* mtx and block in cv.wait; or wake up spuriously.
IncomingDequeue(w) ==
    /\ program = "Worker"
    /\ \/ /\ pc[w] = "deq" \/ (pc[w] = "wait" /\ w \notin queues[w].cv)
          /\ queues[w].mtx = NoThread
          /\ IF queues[w].q # <<>>
             THEN /\ event' = [event EXCEPT ![w] = Head(queues[w].q)]
                  /\ queues' = [queues EXCEPT ![w].q = Tail(@)]
                  /\ pc' = [pc EXCEPT ![w] = "got"]
             ELSE /\ queues' = [queues EXCEPT ![w].mtx = w]
                  /\ pc' = [pc EXCEPT ![w] = "pred_false"]
                  /\ UNCHANGED event
       \/ /\ pc[w] = "pred_false"
          /\ queues' = [queues EXCEPT ![w].mtx = NoThread, ![w].cv = @ \cup {w}]
          /\ pc' = [pc EXCEPT ![w] = "wait"]
          /\ UNCHANGED event
       \/ /\ pc[w] = "wait" /\ w \in queues[w].cv
          /\ queues' = [queues EXCEPT ![w].cv = @ \ {w}]
          /\ UNCHANGED <<pc, event>>
    /\ UNCHANGED <<notWorker, done, call, program, main_pc, main_i, received_log>>

\* A forward loop that leaves out only the worker itself.
forward_indexes_to_origin(w, e, i) == {j \in i..Len(others(w)) : others(w)[j] # w}

\* The indexes of others of worker w, from i on, that the forward loop of
\* process_events enqueues into for event e.
forward_indexes(w, e, i) ==
    {j \in i..Len(others(w)) : others(w)[j] # e.origin_thread_id /\ others(w)[j] # w}

\* Worker::process_events after dequeue returned: the "received event" line,
\* then the forward loop up to its first enqueue.
ProcessGot(w) ==
    /\ program = "Worker"
    /\ pc[w] = "got"
    /\ received_log' = LogTwice(received_log, <<w, event[w]>>)
    /\ IF forward_indexes(w, event[w], 1) = {}
       THEN pc' = [pc EXCEPT ![w] = "loop"] /\ event' = [event EXCEPT ![w] = NoOEvent]
       ELSE pc' = [pc EXCEPT ![w] = "push"] /\ UNCHANGED event
    /\ call' = [call EXCEPT ![w] = 1]
    /\ UNCHANGED <<notWorker, queues, done, program, main_pc, main_i>>

\* ThreadSafeQueue::enqueue (line 567) called by the forward loop: the push under
\* mtx of the next worker to forward to.
ForwardPush(w) ==
    /\ program = "Worker"
    /\ pc[w] = "push"
    /\ LET j == CHOOSE x \in forward_indexes(w, event[w], call[w]) :
                    \A y \in forward_indexes(w, event[w], call[w]) : x <= y
           to == others(w)[j]
       IN /\ queues[to].mtx = NoThread
          /\ queues' = [queues EXCEPT ![to].q = Append(@, event[w])]
          /\ call' = [call EXCEPT ![w] = j]
    /\ pc' = [pc EXCEPT ![w] = "notify"]
    /\ UNCHANGED <<notWorker, done, event, program, main_pc, main_i, received_log>>

\* ThreadSafeQueue::enqueue called by the forward loop: cv.notify_one() after the
\* lock is released, then the loop goes on to its next enqueue or ends.
ForwardNotify(w) ==
    /\ program = "Worker"
    /\ pc[w] = "notify"
    /\ LET to == others(w)[call[w]]
       IN \E c \in notify_one(queues[to].cv) : queues' = [queues EXCEPT ![to].cv = c]
    /\ IF forward_indexes(w, event[w], call[w] + 1) = {}
       THEN /\ pc' = [pc EXCEPT ![w] = "loop"]
            /\ event' = [event EXCEPT ![w] = NoOEvent]
            /\ call' = [call EXCEPT ![w] = 1]
       ELSE /\ pc' = [pc EXCEPT ![w] = "push"]
            /\ call' = [call EXCEPT ![w] = @ + 1]
            /\ UNCHANGED event
    /\ UNCHANGED <<notWorker, done, program, main_pc, main_i, received_log>>

\* The event main builds in iteration i and the worker it enqueues it into:
\* workers[i % num_threads].others[0].
InjectedEvent(i) == OEvent(<<"Event", i>>, i % worker_num_threads)
InjectTarget(i) == others(i % worker_num_threads)[1]

\* main: incoming_events.enqueue(event) of iteration main_i: the push, then the
\* notify_one and the sleep; after the last iteration the stop() calls start.
MainInject ==
    /\ program = "Worker"
    /\ \/ /\ main_pc = "inject"
          /\ queues[InjectTarget(main_i)].mtx = NoThread
          /\ queues' = [queues EXCEPT ![InjectTarget(main_i)].q = Append(@, InjectedEvent(main_i))]
          /\ main_pc' = "inject_notify"
          /\ UNCHANGED main_i
       \/ /\ main_pc = "inject_notify"
          /\ \E c \in notify_one(queues[InjectTarget(main_i)].cv) :
                queues' = [queues EXCEPT ![InjectTarget(main_i)].cv = c]
          /\ IF main_i + 1 = NumInjected
             THEN main_pc' = "stop" /\ main_i' = 0
             ELSE main_pc' = "inject" /\ main_i' = main_i + 1
    /\ UNCHANGED <<notWorker, done, pc, event, call, program, received_log>>

\* main: worker.stop() for the next worker: done = true and cv.notify_all() on
\* Worker::cv, on which no thread waits; after the last call the joins start.
MainStop ==
    /\ program = "Worker"
    /\ main_pc = "stop"
    /\ done' = [done EXCEPT ![main_i] = TRUE]
    /\ IF main_i + 1 = worker_num_threads
       THEN main_pc' = "join" /\ main_i' = 0
       ELSE main_i' = main_i + 1 /\ UNCHANGED main_pc
    /\ UNCHANGED <<notWorker, queues, pc, event, call, program, received_log>>

\* main: thread.join() for the next worker thread, then return.
MainJoinAll ==
    /\ program = "Worker"
    /\ main_pc = "join"
    /\ pc[main_i] = "stopped"
    /\ IF main_i + 1 = worker_num_threads
       THEN main_pc' = "done" /\ main_i' = 0
       ELSE main_i' = main_i + 1 /\ UNCHANGED main_pc
    /\ UNCHANGED <<notWorker, queues, done, pc, event, call, program, received_log>>

\* main of the Worker program, once it has launched the worker threads.
WorkerMeshInit ==
    /\ program = "Worker"
    /\ queues = [w \in 0..(worker_num_threads - 1) |-> [q |-> <<>>, mtx |-> NoThread, cv |-> {}]]
    /\ done = [w \in 0..(worker_num_threads - 1) |-> FALSE]
    /\ pc = [w \in 0..(worker_num_threads - 1) |-> "loop"]
    /\ event = [w \in 0..(worker_num_threads - 1) |-> NoOEvent]
    /\ call = [w \in 0..(worker_num_threads - 1) |-> 1]
    /\ main_pc = "inject"
    /\ main_i = 0
    /\ gen_pc = "stopped"
    /\ stop_flag = FALSE /\ sequence_number = 0 /\ route_i = 0
    /\ NoWorkerProgram
    /\ received_events = <<>>
    /\ NoLogs
    /\ NoTest
    /\ workers = <<>> /\ appointments = <<>> /\ appointmentsMutex = NoThread /\ rows = <<>>

WorkerMeshNext ==
    \/ \E w \in DOMAIN pc : ProcessLoop(w)
    \/ \E w \in DOMAIN pc : IncomingDequeue(w)
    \/ \E w \in DOMAIN pc : ProcessGot(w)
    \/ \E w \in DOMAIN pc : ForwardPush(w)
    \/ \E w \in DOMAIN pc : ForwardNotify(w)
    \/ MainInject
    \/ MainStop
    \/ MainJoinAll

\* The Worker program.
WorkerMeshSpec == WorkerMeshInit /\ [][WorkerMeshNext]_vars

\* ==================================================== AppointmentSystem

\* What the AppointmentSystem program leaves alone.
notAppointments ==
    <<queueVars, workerVars, event, gen_pc, main_pc, main_i, nodeVars, testVars,
      workers, done, rows>>

\* Dates are <<year, month, day>> and times <<hour, minute>>: the fields that
\* std::get_time reads from "YYYY-MM-DD" and "HH:MM".
Today == <<2026, 11, 6>>

\* AppointmentHelper::isValidDate and isValidTime: get_time accepts a month of
\* 1..12 with a day of 1..31, and an hour of 0..23 with a minute of 0..59.
isValidDate(date) == date[2] \in 1..12 /\ date[3] \in 1..31
isValidTime(time) == time[1] \in 0..23 /\ time[2] \in 0..59

\* AppointmentHelper::isPastDate: the date at midnight is before today at midnight.
isPastDate(date) ==
    \/ date[1] < Today[1]
    \/ date[1] = Today[1] /\ date[2] < Today[2]
    \/ date[1] = Today[1] /\ date[2] = Today[2] /\ date[3] < Today[3]

\* The appointments a caller may pass: two ids, a future, a past and a malformed
\* date, two times and a malformed one.
Appointments ==
    [id : {"appt1", "appt2"},
     date : {<<2027, 3, 15>>, <<2023, 1, 1>>, <<2023, 13, 1>>},
     time : {<<10, 0>>, <<11, 0>>, <<25, 0>>}]

\* Some stored appointment other than the one at index `except` has the slot of a.
slot_booked(stored, a, except) ==
    \E i \in 1..Len(stored) :
       i # except /\ stored[i].date = a.date /\ stored[i].time = a.time

\* A call returns: the lock_guard releases appointmentsMutex.
Return(t, op, arg, ret) ==
    /\ call' = [call EXCEPT ![t] = [op |-> op, arg |-> arg, ret |-> ret]]
    /\ appointmentsMutex' = NoThread
    /\ pc' = [pc EXCEPT ![t] = "idle"]

\* A call goes on, holding appointmentsMutex, to a helper that locks it again.
CallHelper(t, op, arg) ==
    /\ call' = [call EXCEPT ![t] = [op |-> op, arg |-> arg, ret |-> "none"]]
    /\ appointmentsMutex' = t
    /\ pc' = [pc EXCEPT ![t] = "relock"]

\* AppointmentSystem::addAppointment from its lock_guard to its return false or
\* to its call of saveAppointments.
addAppointment(t, a) ==
    /\ program = "Appointments"
    /\ pc[t] = "idle"
    /\ appointmentsMutex = NoThread
    /\ IF \/ ~isValidDate(a.date) \/ ~isValidTime(a.time)
          \/ isPastDate(a.date)
          \/ slot_booked(appointments, a, 0)
       THEN Return(t, "add", a, "false") /\ UNCHANGED appointments
       ELSE CallHelper(t, "add", a) /\ appointments' = Append(appointments, a)
    /\ UNCHANGED <<notAppointments, program>>

\* AppointmentSystem::modifyAppointment from its lock_guard to its return false
\* or to its call of findAppointmentIndex.
modifyAppointment(t, id, a) ==
    /\ program = "Appointments"
    /\ pc[t] = "idle"
    /\ appointmentsMutex = NoThread
    /\ IF ~isValidDate(a.date) \/ ~isValidTime(a.time) \/ isPastDate(a.date)
       THEN Return(t, "modify", <<id, a>>, "false")
       ELSE CallHelper(t, "modify", <<id, a>>)
    /\ UNCHANGED <<notAppointments, program, appointments>>

\* AppointmentSystem::removeAppointment from its lock_guard to its call of
\* findAppointmentIndex.
removeAppointment(t, id) ==
    /\ program = "Appointments"
    /\ pc[t] = "idle"
    /\ appointmentsMutex = NoThread
    /\ CallHelper(t, "remove", id)
    /\ UNCHANGED <<notAppointments, program, appointments>>

\* std::lock_guard lock(appointmentsMutex) in saveAppointments or
\* findAppointmentIndex, run by the thread that holds appointmentsMutex.  Locking
\* a std::mutex the thread owns is undefined: the thread blocks for ever (no
\* step), or lock() throws std::system_error and the call ends with the
\* exception, its lock_guard releasing the mutex.
RelockThrows(t) ==
    /\ program = "Appointments"
    /\ pc[t] = "relock"
    /\ appointmentsMutex = t
    /\ Return(t, call[t].op, call[t].arg, "throws")
    /\ UNCHANGED <<notAppointments, program, appointments>>

\* An AppointmentSystem with no stored appointment and its calling threads.
AppointmentInit ==
    /\ program = "Appointments"
    /\ appointments = <<>>
    /\ appointmentsMutex = NoThread
    /\ pc = [t \in Clients |-> "idle"]
    /\ call = [t \in Clients |-> [op |-> "none", arg |-> <<>>, ret |-> "none"]]
    /\ event = <<>>
    /\ queues = <<>> /\ stop_flag = FALSE /\ sequence_number = 0 /\ route_i = 0
    /\ NoWorkerProgram
    /\ gen_pc = "stopped" /\ main_pc = "input" /\ main_i = 0
    /\ received_events = <<>>
    /\ NoLogs
    /\ NoTest
    /\ workers = <<>> /\ done = <<>> /\ rows = <<>>

AppointmentNext ==
    \/ \E t \in Clients : \E a \in Appointments : addAppointment(t, a)
    \/ \E t \in Clients : \E a \in Appointments : modifyAppointment(t, a.id, a)
    \/ \E t \in Clients : \E id \in {"appt1", "appt2"} : removeAppointment(t, id)
    \/ \E t \in Clients : RelockThrows(t)

\* AppointmentSystem under concurrent callers.
AppointmentSpec == AppointmentInit /\ [][AppointmentNext]_vars

\* ================================================================ Table
\* A std::string of a row or of a condition value is a sequence of characters;
\* column names and operators stay whole words.

\* What the Table program leaves alone.
notTable ==
    <<queueVars, workerVars, pc, event, gen_pc, main_pc, main_i, nodeVars,
      testVars, workers, done, appointments, appointmentsMutex>>

\* The table of TEST(DatabaseTest, ...) with its last column made REAL.
columnNames == <<"id", "name", "score">>
columnTypes == <<"INTEGER", "TEXT", "REAL">>

DigitValue ==
    [c \in {"0", "1", "2", "3", "4", "5", "6", "7", "8", "9"} |->
        CASE c = "0" -> 0 [] c = "1" -> 1 [] c = "2" -> 2 [] c = "3" -> 3
          [] c = "4" -> 4 [] c = "5" -> 5 [] c = "6" -> 6 [] c = "7" -> 7
          [] c = "8" -> 8 [] c = "9" -> 9]
isdigit(c) == c \in DOMAIN DigitValue

\* Length of an optional sign at the start of str.
SignLen(str) == IF Len(str) > 0 /\ str[1] \in {"+", "-"} THEN 1 ELSE 0

\* Index of the last character of the run of digits starting at index i
\* (i - 1 if there is none).
DigitsEnd(str, i) ==
    CHOOSE j \in (i - 1)..Len(str) :
       /\ \A k \in i..j : isdigit(str[k])
       /\ j = Len(str) \/ ~isdigit(str[j + 1])

\* isInteger: a first character that is a digit or a sign, and strtol stopping
\* at the end of the string (it stops at the start when it finds no digit).
isInteger(str) ==
    /\ str # <<>>
    /\ isdigit(str[1]) \/ str[1] \in {"+", "-"}
    /\ LET e == DigitsEnd(str, SignLen(str) + 1)
           p == IF e = SignLen(str) THEN 0 ELSE e
       IN  p = Len(str)

\* The int that operator>> reads from digits i..e, as its negation acc: <<v>>,
\* or <<>> when it does not fit 32 bits.
RECURSIVE ReadInt(_, _, _, _, _)
ReadInt(str, i, e, neg, acc) ==
    IF i > e
    THEN IF neg THEN <<acc>>
         ELSE IF acc = -2147483647 - 1 THEN <<>> ELSE <<0 - acc>>
    ELSE LET d == DigitValue[str[i]]
         IN  IF acc < -214748364 \/ (acc = -214748364 /\ d > 8)
             THEN <<>>
             ELSE ReadInt(str, i + 1, e, neg, acc * 10 - d)

\* stringToType<int>: <<v>> for the leading [sign]digits of str; <<>> (it
\* throws std::invalid_argument) without a digit or on overflow.
stringToInt(str) ==
    LET e == DigitsEnd(str, SignLen(str) + 1)
    IN  IF e = SignLen(str) THEN <<>>
        ELSE ReadInt(str, SignLen(str) + 1, e, SignLen(str) = 1 /\ str[1] = "-", 0)

\* What operator>> reads for a double: [sign]digits[.digits]; dot is the index
\* of the point (0 if none) and last the index of the last character read.
ReadDouble(str) ==
    LET s0  == SignLen(str)
        e1  == DigitsEnd(str, s0 + 1)
        dot == IF e1 < Len(str) /\ str[e1 + 1] = "." THEN e1 + 1 ELSE 0
        e2  == IF dot = 0 THEN e1 ELSE DigitsEnd(str, dot + 1)
    IN  [last |-> e2, dot |-> dot,
         fail |-> (e1 - s0) + (IF dot = 0 THEN 0 ELSE e2 - dot) = 0]

\* isDouble: the read does not fail and reaches the end of the string.
isDouble(str) == ~ReadDouble(str).fail /\ ReadDouble(str).last = Len(str)

\* stringToType<double>: <<v>> in units of 10^-MaxFrac, <<>> when it throws.
RECURSIVE Digits(_, _, _, _)
Digits(str, i, e, acc) ==
    IF i > e THEN acc ELSE Digits(str, i + 1, e, acc * 10 + DigitValue[str[i]])
RECURSIVE Pow10(_)
Pow10(n) == IF n = 0 THEN 1 ELSE 10 * Pow10(n - 1)
ToDouble(str, r, s0) ==
    LET ie == IF r.dot = 0 THEN r.last ELSE r.dot - 1
        fe == IF r.dot = 0 THEN 0 ELSE
              IF r.last - r.dot > MaxFrac THEN r.dot + MaxFrac ELSE r.last
        fn == IF r.dot = 0 THEN 0 ELSE fe - r.dot
        v  == Digits(str, s0 + 1, ie, 0) * Pow10(MaxFrac)
              + (IF fn = 0 THEN 0
                 ELSE Digits(str, r.dot + 1, fe, 0) * Pow10(MaxFrac - fn))
    IN  IF r.fail THEN <<>>
        ELSE IF s0 = 1 /\ str[1] = "-" THEN <<0 - v>> ELSE <<v>>
stringToDouble(str) == ToDouble(str, ReadDouble(str), SignLen(str))

\* A validation that lets every value pass.
validValue_accepts_all(type, str) == TRUE

\* The data validation switch of insertData and updateData.
validValue(type, str) ==
    CASE type = "INTEGER" -> isInteger(str) /\ stringToInt(str) # <<>>
      [] type = "REAL"    -> isDouble(str)
      [] type = "TEXT"    -> TRUE

\* Index of a column name in columnNames, 0 if there is none.
columnIndex(name) ==
    IF \E i \in DOMAIN columnNames : columnNames[i] = name
    THEN CHOOSE i \in DOMAIN columnNames : columnNames[i] = name
    ELSE 0

\* The words operator>> reads from the characters of str from index i on, word
\* being the word in progress: the runs of characters between spaces.
RECURSIVE Words(_, _, _)
Words(str, i, word) ==
    IF i > Len(str) THEN (IF word = <<>> THEN <<>> ELSE <<word>>)
    ELSE IF str[i] # " " THEN Words(str, i + 1, Append(word, str[i]))
    ELSE IF word = <<>> THEN Words(str, i + 1, <<>>)
    ELSE <<word>> \o Words(str, i + 1, <<>>)

\* The k-th word read from the condition, empty once the stream is at its end.
Word(words, k) == IF k <= Len(words) THEN words[k] ELSE <<>>

\* One comparison of evaluateCondition: "true", "false", or "return" where
\* the function returns false at once (unknown column or operator, or a value
\* that does not convert).  A column name or an operator is a single symbol.
compare(row, colName, op, value) ==
    LET i == IF Len(colName) = 1 THEN columnIndex(colName[1]) ELSE 0
        is(b) == IF b THEN "true" ELSE "false"
        numeric(x, y) ==
            IF x = <<>> \/ y = <<>> THEN "return"
            ELSE CASE op = <<"=">>  -> is(x[1] = y[1])
                   [] op = <<"!=">> -> is(x[1] # y[1])
                   [] op = <<">">>  -> is(x[1] > y[1])
                   [] op = <<"<">>  -> is(x[1] < y[1])
                   [] op = <<">=">> -> is(x[1] >= y[1])
                   [] op = <<"<=">> -> is(x[1] <= y[1])
                   [] OTHER -> "return"
    IN  IF i = 0 THEN "return"
        ELSE CASE columnTypes[i] = "INTEGER" ->
                    numeric(stringToInt(row[i]), stringToInt(value))
               [] columnTypes[i] = "REAL" ->
                    numeric(stringToDouble(row[i]), stringToDouble(value))
               [] columnTypes[i] = "TEXT" ->
                    CASE op = <<"=">>  -> is(row[i] = value)
                      [] op = <<"!=">> -> is(row[i] # value)
                      [] OTHER -> "return"

\* The end of evaluateCondition: the two results joined by AND or OR.
combine(result, logicalOp, nextResult) ==
    IF result = "return" \/ nextResult = "return" THEN FALSE
    ELSE CASE logicalOp = <<"AND">> -> result = "true" /\ nextResult = "true"
           [] logicalOp = <<"OR">>  -> result = "true" \/ nextResult = "true"
           [] OTHER -> FALSE

\* evaluateCondition on the words of a condition that is not empty: column,
\* operator and value; a fourth word, if there is one, is the logical operator
\* and the three after it are the second comparison.
evaluateWords(row, words) ==
    IF Len(words) < 4
    THEN compare(row, Word(words, 1), Word(words, 2), Word(words, 3)) = "true"
    ELSE combine(compare(row, Word(words, 1), Word(words, 2), Word(words, 3)),
                 Word(words, 4),
                 compare(row, Word(words, 5), Word(words, 6), Word(words, 7)))

\* Table::evaluateCondition.  A condition is its sequence of symbols: the
\* characters of its values, its column names and operators, and the spaces.
evaluateCondition(row, condition) ==
    IF condition = <<>> THEN TRUE ELSE evaluateWords(row, Words(condition, 1, <<>>))

\* Table::insertData.
insertData(rowData) ==
    /\ program = "Table"
    /\ Len(rows) < MaxRows
    /\ LET accepted ==
               /\ Len(rowData) = Len(columnTypes)
               /\ \A i \in DOMAIN columnTypes : validValue(columnTypes[i], rowData[i])
               /\ \A r \in DOMAIN rows : rows[r][1] # rowData[1]
       IN  /\ rows' = IF accepted THEN Append(rows, rowData) ELSE rows
           /\ call' = [op |-> "insertData", arg |-> <<rowData>>, ret |-> accepted]
    /\ UNCHANGED <<notTable, program>>

\* The inner loop of updateData on one matching row, from update k on: the row
\* as it leaves it, and whether no update made the function return false.
RECURSIVE ApplyUpdates(_, _, _)
ApplyUpdates(row, updatedValues, k) ==
    IF k > Len(updatedValues) THEN [row |-> row, ok |-> TRUE]
    ELSE LET i == columnIndex(updatedValues[k][1])
             newValue == updatedValues[k][2]
         IN  IF i = 0 \/ ~validValue(columnTypes[i], newValue)
             THEN [row |-> row, ok |-> FALSE]
             ELSE ApplyUpdates([row EXCEPT ![i] = newValue], updatedValues, k + 1)

\* The outer loop of updateData from row i on.
RECURSIVE UpdateRows(_, _, _, _, _)
UpdateRows(rs, i, condition, updatedValues, updated) ==
    IF i > Len(rs) THEN [rows |-> rs, ret |-> updated]
    ELSE IF ~evaluateCondition(rs[i], condition)
    THEN UpdateRows(rs, i + 1, condition, updatedValues, updated)
    ELSE LET r == ApplyUpdates(rs[i], updatedValues, 1)
             rs2 == [rs EXCEPT ![i] = r.row]
         IN  IF ~r.ok THEN [rows |-> rs2, ret |-> FALSE]
             ELSE UpdateRows(rs2, i + 1, condition, updatedValues,
                             updated \/ updatedValues # <<>>)

\* Table::updateData.
updateData(condition, updatedValues) ==
    /\ program = "Table"
    /\ LET r == UpdateRows(rows, 1, condition, updatedValues, FALSE)
       IN  /\ rows' = r.rows
           /\ call' = [op |-> "updateData", arg |-> <<condition, updatedValues>>,
                       ret |-> r.ret]
    /\ UNCHANGED <<notTable, program>>

\* The rows of rs from index i on for which evaluateCondition holds, or does
\* not hold, in their order.
RECURSIVE SelectRows(_, _, _, _)
SelectRows(rs, i, condition, wanted) ==
    IF i > Len(rs) THEN <<>>
    ELSE (IF evaluateCondition(rs[i], condition) = wanted THEN <<rs[i]>> ELSE <<>>)
            \o SelectRows(rs, i + 1, condition, wanted)

\* Table::selectData.
selectData(condition) ==
    /\ program = "Table"
    /\ call' = [op |-> "selectData", arg |-> <<condition>>,
                ret |-> SelectRows(rows, 1, condition, TRUE)]
    /\ UNCHANGED <<notTable, program, rows>>

\* Table::deleteData.
deleteData(condition) ==
    /\ program = "Table"
    /\ rows' = SelectRows(rows, 1, condition, FALSE)
    /\ call' = [op |-> "deleteData", arg |-> <<condition>>,
                ret |-> \E i \in DOMAIN rows : evaluateCondition(rows[i], condition)]
    /\ UNCHANGED <<notTable, program>>

\* The strings, rows, conditions and updates the callers pass.
Ids == {<<"1">>, <<"+", "1">>, <<"a">>, <<"9", "9", "9", "9", "9", "9", "9", "9", "9", "9">>}
Names == {<<"a">>, <<"N", " ", "Y">>}
Scores == {<<"1">>, <<"1", ".", "5">>, <<"1", "a">>}
RowData ==
    {<<i, n, s>> : i \in Ids, n \in Names, s \in Scores}
       \cup {<<i, n>> : i \in Ids, n \in Names}

\* The condition "column op value", and two conditions joined by AND or OR.
Condition(c) == <<c[1], " ", c[2], " ">> \o c[3]
Joined(c, logicalOp, d) == Condition(c) \o <<" ", logicalOp, " ">> \o Condition(d)

\* Comparisons of a column with a value of its type.
Comparisons ==
    {<<"id", "=", <<"1">>>>, <<"name", "=", <<"a">>>>, <<"name", "=", <<"N", " ", "Y">>>>,
     <<"name", "!=", <<>>>>, <<"score", ">", <<"1">>>>}
TwoComparisons ==
    {<<c, l, d>> : c \in {<<"id", "=", <<"1">>>>, <<"score", ">", <<"1">>>>},
                   l \in {"AND", "OR"},
                   d \in {<<"name", "=", <<"a">>>>, <<"name", "=", <<"N", " ", "Y">>>>}}
Conditions ==
    {<<>>, Condition(<<"nope", "=", <<"1">>>>)}
       \cup {Condition(c) : c \in Comparisons}
       \cup {Joined(t[1], t[2], t[3]) : t \in TwoComparisons}
UpdateConditions ==
    {<<>>, Condition(<<"id", "=", <<"1">>>>), Condition(<<"score", ">", <<"1">>>>),
     Joined(<<"id", "=", <<"1">>>>, "AND", <<"name", "=", <<"a">>>>)}
Updates ==
    {<<"id", <<"+", "1">>>>, <<"name", <<"a">>>>, <<"score", <<"1">>>>,
     <<"score", <<"1", "a">>>>, <<"nope", <<"1">>>>}
UpdateLists ==
    {<<>>} \cup {<<u>> : u \in Updates}
       \cup {<<<<"id", <<"+", "1">>>>, v>> : v \in Updates}

\* A Table as its constructor leaves it when there is no file to load.
TableInit ==
    /\ program = "Table"
    /\ rows = <<>>
    /\ call = [op |-> "none", arg |-> <<>>, ret |-> FALSE]
    /\ pc = <<>> /\ event = <<>>
    /\ queues = <<>> /\ stop_flag = FALSE /\ sequence_number = 0 /\ route_i = 0
    /\ NoWorkerProgram
    /\ gen_pc = "stopped" /\ main_pc = "input" /\ main_i = 0
    /\ received_events = <<>>
    /\ NoLogs
    /\ NoTest
    /\ workers = <<>> /\ done = <<>>
    /\ appointments = <<>> /\ appointmentsMutex = NoThread

TableNext ==
    \/ \E rowData \in RowData : insertData(rowData)
    \/ \E condition \in UpdateConditions : \E updatedValues \in UpdateLists :
          updateData(condition, updatedValues)
    \/ \E condition \in Conditions : selectData(condition)
    \/ \E condition \in Conditions : deleteData(condition)

\* A Table under any sequence of calls.
TableSpec == TableInit /\ [][TableNext]_vars

\* ============================================================== Booking
\* The two booking agents of part_000: book_appointment with availability
\* windows as "HH:MM" strings (lines 1-290) and book_appointment with hospital
\* facilities (lines 291-563).  They share the doctors and the availability
\* table; a time is <<hour, minute>>, the two fields both read or print.

notBooking ==
    <<queueVars, workerVars, pc, event, gen_pc, main_pc, main_i, nodeVars,
      testVars, workers, done, appointments, appointmentsMutex, rows>>

city_boundary == <<<<0, 0>>, <<100, 100>>>>

hospitals ==
    << [name |-> "Downtown Medical Center", id |-> 1, location |-> <<60, 70>>,
        facilities |-> <<"Cardiology", "Dental", "Ortho", "General">>],
       [name |-> "City General Hospital", id |-> 2, location |-> <<20, 30>>,
        facilities |-> <<"Neurology", "General">>],
       [name |-> "Uptown Clinic", id |-> 3, location |-> <<80, 20>>,
        facilities |-> <<"Ortho", "Eye">>],
       [name |-> "Outer Clinic", id |-> 4, location |-> <<120, 20>>,
        facilities |-> <<"Ortho">>] >>

doctors ==
    << [id |-> 1, department |-> "Cardiology"], [id |-> 2, department |-> "Neurology"],
       [id |-> 3, department |-> "Ortho"],      [id |-> 4, department |-> "Cardiology"],
       [id |-> 5, department |-> "Neurology"],  [id |-> 6, department |-> "Ortho"],
       [id |-> 7, department |-> "Dental"],     [id |-> 8, department |-> "Eye"],
       [id |-> 9, department |-> "General"],    [id |-> 10, department |-> "General"],
       [id |-> 11, department |-> "General"] >>

doctor_availability ==
    << [hospital_id |-> 1, doctor_id |-> 3, start_time |-> <<10, 0>>, end_time |-> <<23, 0>>],
       [hospital_id |-> 1, doctor_id |-> 7, start_time |-> <<6, 0>>,  end_time |-> <<15, 0>>],
       [hospital_id |-> 3, doctor_id |-> 3, start_time |-> <<12, 0>>, end_time |-> <<22, 0>>],
       [hospital_id |-> 4, doctor_id |-> 6, start_time |-> <<16, 0>>, end_time |-> <<21, 0>>] >>

\* calculate_distance, squared: the square root keeps the order of these sums.
calculate_distance(p1, p2) ==
    (p1[1] - p2[1]) * (p1[1] - p2[1]) + (p1[2] - p2[2]) * (p1[2] - p2[2])

is_within_city_bounds(location) ==
    /\ location[1] >= city_boundary[1][1] /\ location[1] <= city_boundary[2][1]
    /\ location[2] >= city_boundary[1][2] /\ location[2] <= city_boundary[2][2]

\* A window that takes every time.
is_time_available_always(requested_time, start_time, end_time) == TRUE

\* is_time_available, on minutes since midnight.
is_time_available(requested_time, start_time, end_time) ==
    /\ requested_time[1] * 60 + requested_time[2] >= start_time[1] * 60 + start_time[2]
    /\ requested_time[1] * 60 + requested_time[2] <= end_time[1] * 60 + end_time[2]

\* The doctor with this id has this department.
InDepartment(doctor_id, department) ==
    \E d \in DOMAIN doctors :
       doctors[d].id = doctor_id /\ doctors[d].department = department

\* The first hospital of the list at the least distance from the location.
Nearest(suitable_hospitals, location) ==
    suitable_hospitals[
        CHOOSE i \in DOMAIN suitable_hospitals :
           \A j \in DOMAIN suitable_hospitals :
              LET di == calculate_distance(location, suitable_hospitals[i].location)
                  dj == calculate_distance(location, suitable_hospitals[j].location)
              IN  di < dj \/ (di = dj /\ i <= j)]

Failure(reason) ==
    [status |-> FALSE, reason |-> reason, hospital_name |-> "", doctor_id |-> -1]

\* The last steps of both functions: the first window of the list that the
\* predicate takes gives the doctor, none gives the failure.
BookFirst(nearest_hospital, available_doctors, Takes(_)) ==
    IF \E k \in DOMAIN available_doctors : Takes(available_doctors[k])
    THEN [status |-> TRUE, reason |-> "", hospital_name |-> nearest_hospital.name,
          doctor_id |->
             available_doctors[CHOOSE k \in DOMAIN available_doctors :
                /\ Takes(available_doctors[k])
                /\ \A j \in 1..(k - 1) : ~Takes(available_doctors[j])].doctor_id]
    ELSE Failure("No doctor available at the current time.")

\* The middle of both functions: the windows of the nearest suitable hospital
\* whose doctor the predicate takes.
BookAt(nearest_hospital, Doctor(_), none, Takes(_)) ==
    LET available_doctors ==
            SelectSeq(doctor_availability,
                      LAMBDA a : a.hospital_id = nearest_hospital.id /\ Doctor(a))
    IN  IF available_doctors = <<>> THEN Failure(none)
        ELSE BookFirst(nearest_hospital, available_doctors, Takes)

\* book_appointment with availability windows; now is the local time.
BookByAvailability(pd, now) ==
    LET suitable_hospitals ==
            SelectSeq(hospitals, LAMBDA h :
               \E a \in DOMAIN doctor_availability :
                  /\ doctor_availability[a].hospital_id = h.id
                  /\ InDepartment(doctor_availability[a].doctor_id, pd.illness))
    IN  IF ~is_within_city_bounds(pd.location)
        THEN Failure("Patient location is outside city bounds.")
        ELSE IF suitable_hospitals = <<>>
        THEN Failure("No suitable hospital found for the patient's illness.")
        ELSE BookAt(Nearest(suitable_hospitals, pd.location),
                    LAMBDA a : InDepartment(a.doctor_id, pd.illness),
                    "No available doctors found at the nearest hospital for the patient's illness.",
                    LAMBDA a : is_time_available(now, a.start_time, a.end_time))

\* book_appointment with hospital facilities; now is the local time.
BookByFacilities(patient, now) ==
    LET suitable_hospitals ==
            SelectSeq(hospitals, LAMBDA h :
               \E f \in DOMAIN h.facilities :
                  \/ h.facilities[f] = patient.illness
                  \/ /\ patient.illness = "General"
                     /\ \E g \in DOMAIN h.facilities : h.facilities[g] = "General")
    IN  IF ~is_within_city_bounds(patient.location)
        THEN Failure("Patient location is outside city limits.")
        ELSE IF suitable_hospitals = <<>>
        THEN Failure("No suitable hospital found for the patient's illness.")
        ELSE BookAt(Nearest(suitable_hospitals, patient.location),
                    LAMBDA a : \/ InDepartment(a.doctor_id, patient.illness)
                               \/ /\ patient.illness = "General"
                                  /\ \E d \in DOMAIN doctors : doctors[d].id = a.doctor_id,
                    "No available doctors found at the nearest hospital.",
                    LAMBDA a :
                       /\ now[1] >= a.start_time[1] /\ now[1] <= a.end_time[1]
                       /\ ~(now[1] = a.start_time[1] /\ now[2] < a.start_time[2])
                       /\ ~(now[1] = a.end_time[1] /\ now[2] > a.end_time[2]))

\* A call of either function by a patient at a local time.
book_appointment(pd, now) ==
    /\ program = "Booking"
    /\ call' = [op |-> "book_appointment", arg |-> <<pd, now>>,
                ret |-> BookByAvailability(pd, now)]
    /\ UNCHANGED <<notBooking, program>>

book_appointment_facilities(patient, now) ==
    /\ program = "Booking"
    /\ call' = [op |-> "book_appointment_facilities", arg |-> <<patient, now>>,
                ret |-> BookByFacilities(patient, now)]
    /\ UNCHANGED <<notBooking, program>>

\* The patients (name and seriousness are read by neither function) and the
\* local times of the calls.
Patients ==
    [illness : {"Cardiology", "Neurology", "Ortho", "Dental", "Eye", "General",
                "UnknownIllness"},
     location : {<<50, 30>>, <<150, 150>>, <<50, 50>>, <<90, 20>>, <<0, 0>>,
                 <<100, 100>>, <<101, 50>>, <<50, -1>>}]
Times ==
    {<<5, 59>>, <<6, 0>>, <<9, 59>>, <<10, 0>>, <<11, 30>>, <<12, 0>>, <<15, 0>>,
     <<15, 1>>, <<22, 0>>, <<22, 1>>, <<23, 0>>, <<23, 1>>}

BookingInit ==
    /\ program = "Booking"
    /\ call = [op |-> "none", arg |-> <<>>, ret |-> Failure("")]
    /\ rows = <<>>
    /\ pc = <<>> /\ event = <<>>
    /\ queues = <<>> /\ stop_flag = FALSE /\ sequence_number = 0 /\ route_i = 0
    /\ NoWorkerProgram
    /\ gen_pc = "stopped" /\ main_pc = "input" /\ main_i = 0
    /\ received_events = <<>>
    /\ NoLogs
    /\ NoTest
    /\ workers = <<>> /\ done = <<>>
    /\ appointments = <<>> /\ appointmentsMutex = NoThread

BookingNext ==
    \/ \E pd \in Patients : \E now \in Times : book_appointment(pd, now)
    \/ \E patient \in Patients : \E now \in Times :
          book_appointment_facilities(patient, now)

\* The booking agents under any sequence of calls.
BookingSpec == BookingInit /\ [][BookingNext]_vars

\* ================================================================ claims

\* The queue under test of QueueSpec, as a sequence of events.
TestQueueContent ==
    IF program = "EventQueue" THEN queues[test_queue].queue_ ELSE event_queue.queue_

\* Thread t is blocked in cv_.wait of its own queue and has not been notified.
Blocked(t) == pc[t] = "wait" /\ t \in queues[own_queue(t)].cv_

\* No element of the bag occurs in it more than once.
NoRepeat(bag) == \A x \in BagToSet(bag) : CopiesIn(x, bag) <= 1

\* C1: the shutdown sequence of main (stop_flag, request_stop on every queue,
\* join) always completes.  Stated on the states in which nothing can run any
\* more: main waits in join, the generator has returned, no resend thread is
\* left and every other thread has returned or is blocked in cv_.wait; then no
\* notification can come, so the claim requires that no thread is blocked.
C1_ShutdownCompletes ==
    (/\ program = "EventQueue"
     /\ main_pc = "join"
     /\ gen_pc = "stopped"
     /\ resend = {}
     /\ \A t \in DOMAIN pc : pc[t] = "stopped" \/ Blocked(t))
    => \A t \in DOMAIN pc : pc[t] = "stopped"

\* C2: at-most-once processing: a node prints "received event" for an event
\* identity at most once, however many copies of it are enqueued into its channel.
C2_AtMostOnce == NoRepeat(received_log)

\* C2 witness: the node has consumed at least two injected events and has
\* received one identity, so it has discarded a copy.
C2_Witness ==
    /\ program = "EventQueue"
    /\ injected >= 2
    /\ queues[1].queue_ = <<>>
    /\ pc[1] = "wait"
    /\ Cardinality(received_events[1]) = 1
    /\ BagCardinality(received_log) = 1

\* C3: once stop_requested_ of an EventQueue is true, no enqueue appends to it:
\* the queue does not grow.
C3_NoEnqueueAfterStop ==
    [][\A k \in DOMAIN queues :
          queues[k].stop_requested_ => Len(queues'[k].queue_) <= Len(queues[k].queue_)]_vars

\* C4: request_stop is a broadcast wake.  The step of request_stop leaves no
\* thread blocked; a call of dequeue made once stop is requested does not block;
\* a dequeue that returns once stop is requested returns the head event, or the
\* empty event if the queue is empty; and every thread that was blocked when
\* request_stop ran returns from dequeue.
C4_BroadcastWake ==
    /\ [][\A k \in DOMAIN queues :
            /\ (~queues[k].stop_requested_ /\ queues'[k].stop_requested_)
                  => queues'[k].cv_ = {}
            /\ \A t \in DOMAIN pc :
                  queues[k].stop_requested_ =>
                     /\ pc[t] \in {"idle", "deq"} => pc'[t] \in {"idle", "deq", "got"}
                     /\ (pc[t] = "wait" /\ t \notin queues[k].cv_)
                           => (pc'[t] \in {"wait", "got"} /\ t \notin queues'[k].cv_)
                     /\ (pc[t] # "got" /\ pc'[t] = "got")
                           => event'[t] = IF queues[k].queue_ = <<>> THEN EmptyEvent
                                          ELSE Head(queues[k].queue_)]_vars
    /\ \A t \in Clients : (t \in stop_woke /\ pc[t] = "wait") ~> (pc[t] = "got")

\* C4 witness: request_stop ran while every caller was blocked, and all of them
\* have returned from dequeue.
C4_Witness ==
    /\ program = "EventQueue"
    /\ stop_woke = Clients
    /\ \A t \in Clients : pc[t] = "got"

\* C5: dequeue returns the end-of-stream marker only when the queue is empty and
\* stop has been requested, without removing anything; when events are queued it
\* removes and returns the head, also after stop; it never returns while the
\* queue is empty and stop has not been requested.
C5_DequeueResult ==
    [][\A t \in DOMAIN pc :
          (pc[t] # "got" /\ pc'[t] = "got") =>
             IF program = "EventQueue"
             THEN IF queues[test_queue].queue_ = <<>>
                  THEN /\ queues[test_queue].stop_requested_
                       /\ event'[t] = EmptyEvent
                       /\ queues'[test_queue].queue_ = <<>>
                  ELSE /\ event'[t] = Head(queues[test_queue].queue_)
                       /\ queues'[test_queue].queue_ = Tail(queues[test_queue].queue_)
             ELSE IF event_queue.queue_ = <<>>
                  THEN /\ g_shutdown
                       /\ event'[t] = ShutdownEvent
                       /\ event_queue'.queue_ = <<>>
                  ELSE /\ event'[t] = Head(event_queue.queue_)
                       /\ event_queue'.queue_ = Tail(event_queue.queue_)]_vars

\* C5 witness: after stop, a caller removed a queued event and another caller
\* got the end-of-stream marker from the empty queue.
C5_Witness ==
    /\ program = "EventQueue"
    /\ queues[test_queue].stop_requested_
    /\ \E t, u \in Clients :
          /\ pc[t] = "got" /\ event[t] = EmptyEvent
          /\ pc[u] = "got" /\ event[u] # EmptyEvent

\* C6: FIFO per channel: the events dequeue has removed, followed by the events
\* still queued, are the events in the order their enqueue completed: none
\* lost, duplicated or reordered.
C6_Fifo == enq_log = deq_log \o TestQueueContent

\* C6 witness: two different events were enqueued and dequeued in that order,
\* and the queue is empty.
C6_Witness ==
    /\ Len(enq_log) = 2
    /\ enq_log[1] # enq_log[2]
    /\ deq_log = enq_log
    /\ TestQueueContent = <<>>

\* C7: without a stop and under fair scheduling, every event that
\* event_generator produces is eventually reported as received by every
\* event_processor.
C7_MeshDelivers ==
    \A s \in 0..(MaxSeq - 1) :
       (sequence_number > s) ~>
          (\A p \in Procs : BagIn(<<p, event_id(GeneratedEvent(0, s))>>, received_log))

\* C7 witness: every processor has received the first generated event.
C7_Witness ==
    /\ program = "EventQueue"
    /\ sequence_number > 0
    /\ \A p \in Procs : BagIn(<<p, event_id(GeneratedEvent(0, 0))>>, received_log)

\* A copy of the event with this id is queued, held by a worker or carried by a
\* resend thread.
InFlight(i) ==
    \/ \E n \in 1..Len(event_queue.queue_) : event_queue.queue_[n].id = i
    \/ \E w \in DOMAIN pc : pc[w] = "got" /\ event[w].id = i
    \/ \E r \in resend : r.event.id = i

\* C8: with no shutdown, every event EventGenerator generates is eventually
\* received by every worker.  Stated on the states that no later step can
\* repair: once no copy of a generated event is in flight, no worker can
\* receive it any more, so every worker must have received it.
C8_AllWorkersReceive ==
    program = "WorkerThread" =>
       \A i \in 0..(event_id_ - 1) :
          ~InFlight(i) => \A w \in Workers : BagIn(<<w, i>>, received_log)

\* C9: a node forwards an identity at most once: it starts one round of
\* forwarding for an identity, and each neighbor channel gets at most one copy of
\* the identity from that node.
C9_ForwardOnce == NoRepeat(resend_log) /\ NoRepeat(forward_log)

\* C10: WorkerThread dedup is by id only: after a worker has processed an event,
\* an event with the same id and other data adds no entry to received_events,
\* prints no second "received" line and starts no second forward.
C10_DedupById ==
    /\ \A w \in DOMAIN received_events :
          \A a, b \in received_events[w] : a.id = b.id => a = b
    /\ NoRepeat(received_log)
    /\ NoRepeat(resend_log)

\* The process-wide stop flag of the running program.
Stopping == IF program = "EventQueue" THEN stop_flag ELSE g_shutdown

\* The sequence number in the identity of a generated event.
SeqOf(e) == IF program = "EventQueue" THEN e.sequence_number ELSE e.id

\* C11: the generator stops promptly.  Once the stop flag is set, a generator at
\* its loop test or in its sleep can only terminate, without enqueueing and
\* without starting a sleep; a generator that has passed its post-sleep check
\* enqueues its one event and returns to the loop test; a stopped generator
\* stays stopped; and the generator does terminate.
C11_GeneratorStops ==
    /\ [][Stopping =>
            /\ gen_pc \in {"loop", "sleep"} =>
                  (gen_pc' \in {gen_pc, "stopped"} /\ enq_log' = enq_log)
            /\ gen_pc = "produce" =>
                  (gen_pc' \in {"produce", "loop"} /\ Len(enq_log') <= Len(enq_log) + 1)
            /\ gen_pc = "stopped" => (gen_pc' = "stopped" /\ enq_log' = enq_log)]_vars
    /\ Stopping ~> (gen_pc = "stopped")

\* C11 witness: the flag was set after the generator passed its post-sleep check
\* in a later iteration, so one more event is to be enqueued.
C11_Witness == Stopping /\ gen_pc = "produce" /\ Len(enq_log) >= 1

\* C12: the events a generator enqueues carry strictly increasing sequence
\* numbers, so no two of them share an identity.
C12_IncreasingSequence ==
    \A i, j \in 1..Len(enq_log) : i < j => SeqOf(enq_log[i]) < SeqOf(enq_log[j])

\* C12 witness: the generator of the EventQueue program has produced MaxGen events.
C12_Witness == program = "EventQueue" /\ gen_pc = "loop" /\ Len(enq_log) = MaxGen

\* C13: a delayed forward that finds the stop flag set after its delay enqueues
\* nothing and is not retried: with the flag set, a resend thread that is still
\* in its delay never reaches its enqueue, the step in which it ends changes no
\* queue and starts no thread, and a node starts no second forwarding round for
\* an identity.
C13_StoppedForwardDrops ==
    /\ [][\A r \in resend :
            (r.stage = "sleep" /\ Stopping) =>
               /\ [r EXCEPT !.stage = "enqueue"] \notin resend'
               /\ r \notin resend' =>
                     (queues' = queues /\ event_queue' = event_queue /\ resend' \subseteq resend)]_vars
    /\ [](NoRepeat(resend_log))

\* C13 witness: event_processor 1 started a forward, the stop flag is set, its
\* resend threads have ended and the channels they were to enqueue into are empty.
C13_Witness ==
    /\ program = "EventQueue"
    /\ stop_flag
    /\ resend = {}
    /\ BagCardinality(resend_log) >= 1
    /\ \A k \in Queues \ {1} : queues[k].queue_ = <<>>

\* The channel the processing loop of node t dequeues from.
NodeChannel(t) ==
    IF program = "EventQueue" THEN <<"queues", own_queue(t)>> ELSE <<worker_queue(t), 0>>

\* C14: each channel is owned by exactly one node: no two processing loops
\* dequeue from the same channel.
C14_ChannelOwnedByOneNode ==
    \A a, b \in DOMAIN pc : a # b => NodeChannel(a) # NodeChannel(b)

\* C15: shutdown of the WorkerThread program always completes: once main has set
\* g_shutdown, the generator and every worker terminate and main returns from
\* its last join, whatever the position of each worker was when the flag was set.
C15_WorkerShutdownCompletes ==
    (program = "WorkerThread" /\ g_shutdown) ~> (main_pc = "done")

\* C15 witness: main has returned from every join while a delayed forward was
\* still pending.
C15_Witness ==
    /\ program = "WorkerThread"
    /\ main_pc = "done"
    /\ \A w \in DOMAIN pc : pc[w] = "stopped"
    /\ resend # {}

\* C16: shutdown of the Worker program completes.  Stated on the states in which
\* nothing can run any more: main waits in join and every worker has returned
\* or is blocked in incoming_events.dequeue() on an empty queue; then no enqueue
\* can come, so the claim requires that no worker is blocked.
C16_WorkerStopCompletes ==
    (/\ program = "Worker"
     /\ main_pc = "join"
     /\ \A w \in DOMAIN pc :
           \/ pc[w] = "stopped"
           \/ pc[w] = "wait" /\ w \in queues[w].cv /\ queues[w].q = <<>>)
    => \A w \in DOMAIN pc : pc[w] = "stopped"

\* C17: redundant traffic of the Worker program is bounded: every worker
\* receives an injected event at most once.
C17_ReceivedOnce == program = "Worker" => NoRepeat(received_log)

\* C18: every call of addAppointment, modifyAppointment and removeAppointment
\* returns: no call comes to lock appointmentsMutex while its own thread holds
\* it, where it would block for ever or end with an exception.
C18_CallsReturn ==
    program = "Appointments" => \A t \in DOMAIN pc : pc[t] # "relock"

\* C19: a failed update changes nothing: an updateData that returns false
\* leaves every row as it found it.
C19_FailedUpdateChangesNothing ==
    [][(program = "Table" /\ call'.op = "updateData" /\ call'.ret = FALSE)
          => rows' = rows]_vars

\* C20: insertData returns false and leaves the rows as they were for a row of
\* the wrong length, a row with a value not valid for its column type and a
\* row whose first value is the first value of a stored row; it appends every
\* other row at the end and returns true.
C20_InsertRejectsOrAppends ==
    [][(program = "Table" /\ call'.op = "insertData") =>
          LET rowData == call'.arg[1]
              rejected ==
                  \/ Len(rowData) # Len(columnTypes)
                  \/ \E i \in DOMAIN columnTypes :
                        \/ columnTypes[i] = "INTEGER" /\ stringToInt(rowData[i]) = <<>>
                        \/ columnTypes[i] = "INTEGER" /\ ~isInteger(rowData[i])
                        \/ columnTypes[i] = "REAL" /\ ~isDouble(rowData[i])
                  \/ \E r \in DOMAIN rows : rows[r][1] = rowData[1]
          IN  IF rejected
              THEN call'.ret = FALSE /\ rows' = rows
              ELSE call'.ret = TRUE /\ rows' = rows \o <<rowData>>]_vars

\* A row was appended and a later row was rejected for its first value.
C20_Witness ==
    /\ program = "Table" /\ call.op = "insertData" /\ call.ret = FALSE
    /\ Len(rows) = 1
    /\ Len(call.arg[1]) = Len(columnTypes)
    /\ call.arg[1][1] = rows[1][1]

\* The row satisfies the comparison c = <<column, op, value>> of a column with a
\* value of its type: numbers compare by value, texts as whole strings.
Satisfies(row, c) ==
    LET i == columnIndex(c[1])
        x == IF columnTypes[i] = "INTEGER" THEN stringToInt(row[i])
             ELSE IF columnTypes[i] = "REAL" THEN stringToDouble(row[i]) ELSE <<0>>
        y == IF columnTypes[i] = "INTEGER" THEN stringToInt(c[3])
             ELSE IF columnTypes[i] = "REAL" THEN stringToDouble(c[3]) ELSE <<0>>
    IN  IF columnTypes[i] = "TEXT"
        THEN (c[2] = "=" /\ row[i] = c[3]) \/ (c[2] = "!=" /\ row[i] # c[3])
        ELSE CASE c[2] = "=" -> x[1] = y[1] [] c[2] = "!=" -> x[1] # y[1]
               [] c[2] = ">" -> x[1] > y[1] [] c[2] = "<" -> x[1] < y[1]
               [] c[2] = ">=" -> x[1] >= y[1] [] c[2] = "<=" -> x[1] <= y[1]

\* The row satisfies the two comparisons of t = <<c, AND/OR, d>>.
SatisfiesTwo(row, t) ==
    IF t[2] = "AND" THEN Satisfies(row, t[1]) /\ Satisfies(row, t[3])
    ELSE Satisfies(row, t[1]) \/ Satisfies(row, t[3])

\* C21: selectData with the condition 'c1 op v1 AND c2 op v2' returns the rows
\* that satisfy both comparisons, with OR those that satisfy at least one, in
\* insertion order, also when the value of a TEXT comparison holds a space.
C21_SelectTwoConditions ==
    \A t \in TwoComparisons :
       (program = "Table" /\ call.op = "selectData"
          /\ call.arg = <<Joined(t[1], t[2], t[3])>>)
       => call.ret = SelectSeq(rows, LAMBDA row : SatisfiesTwo(row, t))

\* C22: deleteData removes the rows that satisfy the condition and keeps the
\* others in their order, returns true exactly when it removed a row, and the
\* same delete right after it returns false and changes nothing.
C22_DeleteExactlyMatching ==
    [][\A c \in Comparisons :
          (program = "Table" /\ call'.op = "deleteData"
             /\ call'.arg = <<Condition(c)>>)
          => /\ rows' = SelectSeq(rows, LAMBDA row : ~Satisfies(row, c))
             /\ call'.ret = (rows' # rows)
             /\ (call.op = "deleteData" /\ call.arg = call'.arg)
                   => (call'.ret = FALSE /\ rows' = rows)]_vars

\* Some hospital offers the illness and has a doctor of that department whose
\* window contains the time.
OfferedWithDoctorOnDuty(illness, now) ==
    \E h \in DOMAIN hospitals : \E a \in DOMAIN doctor_availability :
       /\ \E f \in DOMAIN hospitals[h].facilities : hospitals[h].facilities[f] = illness
       /\ doctor_availability[a].hospital_id = hospitals[h].id
       /\ InDepartment(doctor_availability[a].doctor_id, illness)
       /\ is_time_available(now, doctor_availability[a].start_time,
                            doctor_availability[a].end_time)

\* C23: with hospital facilities, a patient inside the city limits whose
\* illness some hospital offers with a matching doctor on duty is booked; a
\* patient with illness "General" at (50,30) is booked.
C23_FacilitiesBooksPatient ==
    (program = "Booking" /\ call.op = "book_appointment_facilities")
       => LET patient == call.arg[1]
          IN  /\ ( /\ is_within_city_bounds(patient.location)
                   /\ OfferedWithDoctorOnDuty(patient.illness, call.arg[2]) )
                    => call.ret.status
              /\ (patient.illness = "General" /\ patient.location = <<50, 30>>)
                    => call.ret.status

\* The hospital has an availability window of a doctor of the department.
HasDepartment(h, department) ==
    \E a \in DOMAIN doctor_availability :
       /\ doctor_availability[a].hospital_id = h.id
       /\ InDepartment(doctor_availability[a].doctor_id, department)

C25_ExitOnlyOnEndOfStream ==
    [][\A p \in Procs \cap DOMAIN pc :
          (program = "EventQueue" /\ pc[p] = "got" /\ pc'[p] = "stopped")
             => event[p] = EmptyEvent]_vars

\* C26: a forward is all-or-nothing: no forward task of a node enqueues an event
\* into one neighbor channel while a task of the same node for the same event
\* is still in its delay with the stop signal set, so that it will drop it.
C26_ForwardAllOrNothing ==
    [][\A r \in resend :
          (program = "EventQueue" /\ r.stage = "enqueue" /\ r \notin resend')
             => ~(stop_flag /\ \E r2 \in resend :
                                 /\ r2.from = r.from /\ r2.event = r.event
                                 /\ r2.to # r.to /\ r2.stage = "sleep")]_vars

\* Every queue of the mesh is empty, no forward task is pending and no thread
\* holds an event it still has to handle.
Quiescent ==
    /\ program = "EventQueue"
    /\ \A k \in Queues : queues[k].queue_ = <<>>
    /\ resend = {}
    /\ \A t \in DOMAIN pc : pc[t] \notin {"got", "route"}

\* C27: redundant traffic is bounded: when the generator produces finitely many
\* events and stop is never requested, the mesh reaches a state, and stays in
\* it, where all queues are empty and no forward task is pending.
C27_TrafficDiesOut == <>[]Quiescent

\* Every event was produced and received by every processor, also all its
\* copies that came back through the generator queue, and the mesh is quiet.
C27_Witness ==
    /\ Quiescent
    /\ sequence_number = MaxSeq
    /\ \A p \in Procs : BagIn(<<p, event_id(GeneratedEvent(0, 0))>>, received_log)

\* C28: end-of-stream is distinct from every real event: a thread that has
\* dequeued an event a producer enqueued, also one with an empty data payload,
\* does not end its loop because of it.
C28_RealEventKeepsLoop ==
    [][\A t \in DOMAIN pc :
          (program = "EventQueue" /\ pc[t] = "got" /\ event[t] # EmptyEvent /\ ~stop_flag)
             => pc'[t] # "stopped"]_vars

\* C29: an event_processor never enqueues into its own queue: every step that
\* adds an event to the queue of a processor is an enqueue of the generator
\* router or of a forward task of another processor.
C29_NoSelfEnqueue ==
    [][\A k \in Procs :
          ( /\ program = "EventQueue"
            /\ Len(queues'[k].queue_) > Len(queues[k].queue_) )
          => \/ pc[Router] = "route" /\ route_i = k /\ resend' = resend
             \/ \E r \in resend \ resend' :
                   r.stage = "enqueue" /\ r.to = k /\ r.from # k]_vars

\* A processor has forwarded an event, all its forward tasks are done and the
\* queue of another processor holds an event.
C29_Witness ==
    /\ program = "EventQueue" /\ ~stop_flag
    /\ \E p \in Procs :
          /\ BagIn(<<p, event_id(GeneratedEvent(0, 0))>>, resend_log)
          /\ \A r \in resend : r.from # p
          /\ \E k \in Procs \ {p} : queues[k].queue_ # <<>>

\* C30: forwarding does not block the loop of a node: the step that starts the
\* delayed forward of a new event takes the node back to the head of its loop,
\* and while forward tasks of the node are still in their delay the node can
\* take the next step of its loop.
C30_ForwardDoesNotBlock ==
    /\ [][\A t \in DOMAIN pc :
             (\E r \in resend' \ resend : r.from = t /\ r.stage = "sleep")
                => pc'[t] = "loop"]_vars
    /\ [](\A t \in DOMAIN pc :
             (\E r \in resend : r.from = t /\ r.stage = "sleep") =>
                /\ pc[t] = "loop" => ENABLED (ConsumerLoop(t) \/ WorkerLoop(t))
                /\ pc[t] = "got" => ENABLED (ProcessorGot(t) \/ WorkerGot(t)))

\* A node has processed a second event while a forward task of an earlier
\* event is still in its delay.
C30_Witness ==
    \E r1, r2 \in resend :
       /\ r1.from = r2.from /\ r1.event # r2.event
       /\ r1.stage = "sleep" /\ r2.stage = "sleep"
       /\ pc[r1.from] = "loop"

\* The identities a node has printed a "received event" line for.
ReceivedObserved(t) == {x[2] : x \in {y \in BagToSet(received_log) : y[1] = t}}

\* The identities held in the dedup set of a node: the event ids of an
\* event_processor, the ids of the events of a WorkerThread.
ReceivedIdentities(t) ==
    IF program = "WorkerThread" THEN {e.id : e \in received_events[t]}
    ELSE received_events[t]

\* C31: the dedup set of a node only grows, and at every moment it holds
\* exactly the identities for which the node has emitted its "received"
\* observation.
C31_DedupSetGrows ==
    /\ [][\A t \in DOMAIN received_events :
             received_events[t] \subseteq received_events'[t]]_vars
    /\ [](\A t \in DOMAIN received_events :
             ReceivedIdentities(t) = ReceivedObserved(t))

\* A node holds two identities in its dedup set and has a duplicate of one of
\* them in hand.
C31_Witness ==
    \E t \in DOMAIN received_events :
       /\ Cardinality(received_events[t]) = 2
       /\ pc[t] = "got"
       /\ IF program = "WorkerThread"
          THEN ~not_received(received_events[t], event[t])
          ELSE is_duplicate(received_events[t], event_id(event[t]))

\* C32: in the Worker program no worker receives an event whose
\* origin_thread_id is its own id: no such event is in its incoming_events,
\* in its hands, or on one of its "received event" lines.
C32_OriginNeverReceives ==
    program = "Worker" =>
       \A w \in DOMAIN pc :
          /\ \A k \in 1..Len(queues[w].q) : queues[w].q[k].origin_thread_id # w
          /\ pc[w] \in {"got", "push", "notify"} => event[w].origin_thread_id # w
          /\ \A x \in BagToSet(received_log) : x[1] = w => x[2].origin_thread_id # w

\* An injected event has been received by both workers that are not its
\* origin, the second through a forward, and a worker has a forwarded copy in
\* hand.
C32_Witness ==
    /\ program = "Worker"
    /\ \E w1, w2 \in DOMAIN pc :
          /\ w1 # w2
          /\ BagIn(<<w1, InjectedEvent(0)>>, received_log)
          /\ BagIn(<<w2, InjectedEvent(0)>>, received_log)
          /\ pc[w1] = "got" /\ event[w1] = InjectedEvent(0)

\* ================================================= event_id at full width

\* A uint64_t is its four 16-bit limbs, the most significant first.
Limb == 2^16

\* (uint64_t)generator_id: the int is sign-extended to 64 bits.
ToUint64(generator_id) ==
    IF generator_id >= 0
    THEN <<0, 0, generator_id \div Limb, generator_id % Limb>>
    ELSE LET u == (generator_id + 2147483647) + 1
         IN  <<Limb - 1, Limb - 1, (u \div Limb) + (Limb \div 2), u % Limb>>

\* x << 32 on a uint64_t: the high 32 bits are shifted out.
ShiftLeft32(x) == <<x[3], x[4], 0, 0>>

RECURSIVE BitOr(_, _)
BitOr(a, b) ==
    IF a = 0 THEN b
    ELSE IF b = 0 THEN a
    ELSE (IF a % 2 = 1 \/ b % 2 = 1 THEN 1 ELSE 0) + 2 * BitOr(a \div 2, b \div 2)

\* x | y on uint64_t.
BitOr64(x, y) == [i \in 1..4 |-> BitOr(x[i], y[i])]

\* event_id of event_processor for an event with the given generator_id and
\* sequence_number seq, the sequence number given by its limbs:
\* ((uint64_t)event.generator_id << 32) | event.sequence_number.
event_id_bits(generator_id, seq) ==
    BitOr64(ShiftLeft32(ToUint64(generator_id)), seq)

\* Identities <<generator_id, sequence_number>> the key is computed for:
\* generator ids over the range of int, sequence numbers below and above 2^32.
GeneratorIds == {-1, 0, 1, 2147483647}
SequenceNumbers ==
    {<<0, 0, 0, 0>>, <<0, 0, 0, 1>>, <<0, 0, Limb - 1, Limb - 1>>,
     <<0, 1, 0, 0>>, <<0, 1, 0, 1>>,
     <<Limb - 1, Limb - 1, Limb - 1, Limb - 1>>}
Identities == GeneratorIds \X SequenceNumbers

\* What the event_id computation leaves alone.
notEventId ==
    <<queueVars, workerVars, pc, event, gen_pc, main_pc, main_i, nodeVars,
      testVars, workers, done, appointments, appointmentsMutex, rows>>

\* event_processor computes the keys of two events it dequeued.
ComputeEventIds(a, b) ==
    /\ program = "event_id"
    /\ call' = [op |-> "event_id", arg |-> <<a, b>>,
                ret |-> <<event_id_bits(a[1], a[2]), event_id_bits(b[1], b[2])>>]
    /\ UNCHANGED <<notEventId, program>>

EventIdInit ==
    /\ program = "event_id"
    /\ call = [op |-> "none", arg |-> <<>>, ret |-> <<>>]
    /\ rows = <<>>
    /\ pc = <<>> /\ event = <<>>
    /\ queues = <<>> /\ stop_flag = FALSE /\ sequence_number = 0 /\ route_i = 0
    /\ NoWorkerProgram
    /\ gen_pc = "stopped" /\ main_pc = "input" /\ main_i = 0
    /\ received_events = <<>>
    /\ NoLogs
    /\ NoTest
    /\ workers = <<>> /\ done = <<>>
    /\ appointments = <<>> /\ appointmentsMutex = NoThread

EventIdNext == \E a, b \in Identities : ComputeEventIds(a, b)

\* The dedup key computed for any two identities.
EventIdSpec == EventIdInit /\ [][EventIdNext]_vars

\* C33: the dedup key of event_processor is injective on identities: two
\* different pairs (generator_id, sequence_number) with non-negative
\* generator_id, whatever the 64-bit sequence_number, never get the same
\* event_id.
C33_EventIdInjective ==
    (program = "event_id" /\ call.op = "event_id"
       /\ call.arg[1][1] >= 0 /\ call.arg[2][1] >= 0
       /\ call.arg[1] # call.arg[2])
    => call.ret[1] # call.ret[2]

\* C34: primary-key uniqueness: after any sequence of insertData, updateData
\* and deleteData calls on a Table that started empty, no two rows have the
\* same value in the first column.
C34_PrimaryKeyUnique ==
    program = "Table" =>
       \A i, j \in 1..Len(rows) : i # j => rows[i][1] # rows[j][1]

\* AppointmentSystem::findAppointmentIndex over the stored list, counting from
\* 1: the first stored appointment with the id, 0 when there is none.
findAppointmentIndex(stored, appointmentId) ==
    IF \E i \in 1..Len(stored) : stored[i].id = appointmentId
    THEN CHOOSE i \in 1..Len(stored) :
            /\ stored[i].id = appointmentId
            /\ \A j \in 1..(i - 1) : stored[j].id # appointmentId
    ELSE 0

\* No two stored appointments have the same date and time.
SlotsUnique ==
    \A i, j \in 1..Len(appointments) :
       i # j => ~(appointments[i].date = appointments[j].date
                   /\ appointments[i].time = appointments[j].time)

\* Thread t enters addAppointment for a slot that is taken, or
\* modifyAppointment for a slot that another appointment than the modified
\* one has.
TargetsOccupiedSlot(t) ==
    /\ pc[t] = "idle"
    /\ \/ /\ call'[t].op = "add"
          /\ slot_booked(appointments, call'[t].arg, 0)
       \/ /\ call'[t].op = "modify"
          /\ slot_booked(appointments, call'[t].arg[2],
                         findAppointmentIndex(appointments, call'[t].arg[1]))

\* C35: slot uniqueness: after any sequence of addAppointment,
\* modifyAppointment and removeAppointment calls on an AppointmentSystem that
\* started empty no two stored appointments have the same (date, time), and an
\* add or modify that targets an occupied slot returns false and leaves the
\* stored list unchanged.
C35_SlotUnique ==
    /\ [](program = "Appointments" => SlotsUnique)
    /\ [][\A t \in DOMAIN pc :
             (program = "Appointments" /\ call'[t] # call[t] /\ TargetsOccupiedSlot(t))
                => /\ pc'[t] = "idle" /\ call'[t].ret = "false"
                   /\ appointments' = appointments]_vars

\* ================================================================ findPairs

\* What findPairs and find_combinations_with_target_sum leave alone.
notVectors ==
    <<queueVars, workerVars, pc, event, gen_pc, main_pc, main_i, nodeVars,
      testVars, workers, done, appointments, appointmentsMutex, rows>>

\* The vectors and sums passed in.
Vectors == UNION {[1..n -> 1..MaxVal] : n \in 0..MaxLen}
Sums == 0..(2 * MaxVal)

\* Method 2 of findPairs from element i on (counting from 1); numMap is the set
\* of keys of the unordered_map, whose values the function never reads.
RECURSIVE findPairsFrom(_, _, _, _)
findPairsFrom(arr, targetSum, i, numMap) ==
    IF i > Len(arr) THEN <<>>
    ELSE (IF (targetSum - arr[i]) \in numMap
          THEN <<<<arr[i], targetSum - arr[i]>>>>
          ELSE <<>>)
         \o findPairsFrom(arr, targetSum, i + 1, numMap \cup {arr[i]})

\* findPairs as compiled: the hash-table method.
findPairs(arr, targetSum) == findPairsFrom(arr, targetSum, 1, {})

\* Method 1 of findPairs, kept in its comments: the inner loop over j for one
\* i, and the outer loop from i on.
RECURSIVE bruteForceInner(_, _, _, _)
bruteForceInner(arr, targetSum, i, j) ==
    IF j > Len(arr) THEN <<>>
    ELSE (IF arr[i] + arr[j] = targetSum THEN <<<<arr[i], arr[j]>>>> ELSE <<>>)
         \o bruteForceInner(arr, targetSum, i, j + 1)

RECURSIVE bruteForceFrom(_, _, _)
bruteForceFrom(arr, targetSum, i) ==
    IF i > Len(arr) THEN <<>>
    ELSE bruteForceInner(arr, targetSum, i, i + 1)
         \o bruteForceFrom(arr, targetSum, i + 1)

bruteForce(arr, targetSum) == bruteForceFrom(arr, targetSum, 1)

\* A call of findPairs.
CallFindPairs(arr, targetSum) ==
    /\ program = "findPairs"
    /\ call' = [op |-> "findPairs", arg |-> <<arr, targetSum>>,
                ret |-> findPairs(arr, targetSum)]
    /\ UNCHANGED <<notVectors, program>>

\* A program that only calls pure functions of vectors.
VectorsInit(prog) ==
    /\ program = prog
    /\ call = [op |-> "none", arg |-> <<>>, ret |-> <<>>]
    /\ rows = <<>>
    /\ pc = <<>> /\ event = <<>>
    /\ queues = <<>> /\ stop_flag = FALSE /\ sequence_number = 0 /\ route_i = 0
    /\ NoWorkerProgram
    /\ gen_pc = "stopped" /\ main_pc = "input" /\ main_i = 0
    /\ received_events = <<>>
    /\ NoLogs
    /\ NoTest
    /\ workers = <<>> /\ done = <<>>
    /\ appointments = <<>> /\ appointmentsMutex = NoThread

FindPairsInit == VectorsInit("findPairs")

FindPairsNext == \E arr \in Vectors : \E targetSum \in Sums : CallFindPairs(arr, targetSum)

\* findPairs under any sequence of calls.
FindPairsSpec == FindPairsInit /\ [][FindPairsNext]_vars

\* How often the pair of values p, in either order, is in the list of pairs.
PairCount(pairs, p) ==
    Cardinality({k \in 1..Len(pairs) : {pairs[k][1], pairs[k][2]} = p})

\* C36: findPairs returns the same collection of pairs as the brute-force
\* method of its comments, one pair for every two indices i < j with
\* arr[i] + arr[j] = targetSum, also for arrays with repeated values, and
\* every returned pair sums to targetSum.
C36_FindPairsAsBruteForce ==
    (program = "findPairs" /\ call.op = "findPairs") =>
       /\ \A k \in 1..Len(call.ret) : call.ret[k][1] + call.ret[k][2] = call.arg[2]
       /\ \A a, b \in 1..MaxVal :
             PairCount(call.ret, {a, b})
                = PairCount(bruteForce(call.arg[1], call.arg[2]), {a, b})

\* ======================================== find_combinations_with_target_sum

\* What a call has done so far: the combinations pushed to out, and the
\* indexes, counted from 0 as in the source, at which it has read `in`.
Done(combinations, indexes) == [out |-> combinations, reads |-> indexes]

\* in[i] == in[i-1] for i counted from 0.  in[-1] is outside the vector: the
\* read is undefined, and the comparison comes out either way (garbage_equal).
equals_previous(in, i, garbage_equal) ==
    IF i - 1 < 0 THEN garbage_equal ELSE in[i + 1] = in[i]

\* The reads of the test `index >= i && in[i] == in[i-1]`: none when the left
\* operand is false.
test_reads(index, i) == IF index >= i THEN {i, i - 1} ELSE {}

\* The results of the recursive call and of the rest of the loop, after the
\* reads of this iteration.
Then(indexes, first, rest) ==
    Done(first.out \o rest.out, indexes \cup first.reads \cup rest.reads)

RECURSIVE find_combinations_with_target_sum(_, _, _, _, _)
RECURSIVE find_combinations_loop(_, _, _, _, _, _)

\* The for loop of find_combinations_with_target_sum from i on.
find_combinations_loop(in, current, target_sum, index, i, garbage_equal) ==
    IF ~(i < Len(in)) THEN Done(<<>>, {})
    ELSE IF index >= i /\ equals_previous(in, i, garbage_equal)
    THEN Then(test_reads(index, i), Done(<<>>, {}),
              find_combinations_loop(in, current, target_sum, index, i + 1,
                                     garbage_equal))
    ELSE Then(test_reads(index, i) \cup {i},
              find_combinations_with_target_sum(in, Append(current, in[i + 1]),
                                                target_sum - in[i + 1], i + 1,
                                                garbage_equal),
              find_combinations_loop(in, current, target_sum, index, i + 1,
                                     garbage_equal))

\* find_combinations_with_target_sum, with what it appends to out as its
\* result.
find_combinations_with_target_sum(in, current, target_sum, index, garbage_equal) ==
    IF target_sum = 0 THEN Done(<<current>>, {})
    ELSE IF target_sum < 0 \/ Len(in) < index THEN Done(<<>>, {})
    ELSE find_combinations_loop(in, current, target_sum, index, index, garbage_equal)

\* A call with an empty current and starting index 0, as main makes it.
CallFindCombinations(in, target_sum, garbage_equal) ==
    /\ program = "find_combinations"
    /\ call' = [op |-> "find_combinations_with_target_sum",
                arg |-> <<in, target_sum>>,
                ret |-> find_combinations_with_target_sum(in, <<>>, target_sum, 0,
                                                          garbage_equal)]
    /\ UNCHANGED <<notVectors, program>>

FindCombinationsInit == VectorsInit("find_combinations")

FindCombinationsNext ==
    \E in \in Vectors : \E target_sum \in Sums : \E garbage_equal \in BOOLEAN :
       CallFindCombinations(in, target_sum, garbage_equal)

\* find_combinations_with_target_sum under any sequence of calls.
FindCombinationsSpec == FindCombinationsInit /\ [][FindCombinationsNext]_vars

\* C37: every element access of find_combinations_with_target_sum, called with
\* starting index 0, uses an index in [0, in.size()), the duplicate-skip test
\* that reads in[i-1] included.
C37_ReadsInBounds ==
    (program = "find_combinations" /\ call.op = "find_combinations_with_target_sum") =>
       \A k \in call.ret.reads : 0 <= k /\ k < Len(call.arg[1])

====
